---- MODULE Spec2Model ----
(***************************************************************************)
(* Model of the country-bot services: battle resolution and casualty       *)
(* allocation (services/military_service.py), the development completion   *)
(* sweep (services/development_service.py) and the guarded resource        *)
(* mutations (services/country_service.py) over the relational store       *)
(* declared in database/models.py.                                         *)
(*                                                                         *)
(* Python floats are IEEE-754 binary64.  The services compute outcomes,    *)
(* casualty counts and bonuses with float arithmetic followed by int(), so *)
(* the model carries a small binary64 library (53-bit significands kept as *)
(* multi-limb naturals, round-half-to-even) and evaluates every float      *)
(* expression of the source with it.                                       *)
(***************************************************************************)
EXTENDS Integers, Sequences, FiniteSets, TLC

(***************************************************************************)
(* Multi-limb naturals: a sequence of limbs, least significant first,      *)
(* without leading (most significant) zero limbs.  <<>> is zero.           *)
(***************************************************************************)
LimbBits == 14

\* 2^n for n in 0..14
Pow2(n) == <<1, 2, 4, 8, 16, 32, 64, 128, 256, 512, 1024, 2048, 4096, 8192,
             16384>>[n + 1]

LimbBase == Pow2(LimbBits)

RECURSIVE BNorm(_)
BNorm(a) ==
    IF Len(a) = 0 THEN <<>>
    ELSE IF a[Len(a)] = 0 THEN BNorm(SubSeq(a, 1, Len(a) - 1))
    ELSE a

RECURSIVE BFromInt(_)
BFromInt(n) ==
    IF n = 0 THEN <<>> ELSE <<(n % LimbBase)>> \o BFromInt(n \div LimbBase)

RECURSIVE BToInt(_)
BToInt(a) ==
    IF Len(a) = 0 THEN 0 ELSE a[1] + LimbBase * BToInt(Tail(a))

Limb(a, j) == IF j >= 1 /\ j <= Len(a) THEN a[j] ELSE 0

\* the tuple <<f[j], ..., f[n]>>
RECURSIVE TupFrom(_, _, _)
TupFrom(f, j, n) == IF j > n THEN <<>> ELSE <<f[j]>> \o TupFrom(f, j + 1, n)

RECURSIVE ColSum(_, _, _, _)
ColSum(a, b, k, i) ==
    IF i > Len(a) THEN 0
    ELSE Limb(a, i) * Limb(b, k + 1 - i) + ColSum(a, b, k, i + 1)

RECURSIVE BMulFrom(_, _, _, _)
BMulFrom(a, b, k, carry) ==
    IF k > Len(a) + Len(b) THEN <<>>
    ELSE LET s == ColSum(a, b, k, 1) + carry
         IN  <<s % LimbBase>> \o BMulFrom(a, b, k + 1, s \div LimbBase)

BMul(a, b) == BNorm(BMulFrom(a, b, 1, 0))

RECURSIVE BAddFrom(_, _, _, _)
BAddFrom(a, b, j, carry) ==
    IF j > Len(a) /\ j > Len(b)
    THEN (IF carry = 0 THEN <<>> ELSE <<carry>>)
    ELSE LET s == Limb(a, j) + Limb(b, j) + carry
         IN  <<s % LimbBase>> \o BAddFrom(a, b, j + 1, s \div LimbBase)

BAdd(a, b) == BAddFrom(a, b, 1, 0)

RECURSIVE BitLenInt(_)
BitLenInt(n) == IF n = 0 THEN 0 ELSE 1 + BitLenInt(n \div 2)

BBitLen(a) ==
    IF Len(a) = 0 THEN 0 ELSE LimbBits * (Len(a) - 1) + BitLenInt(a[Len(a)])

\* bit i of a, i counted from 0 at the least significant end
BBit(a, i) == (Limb(a, i \div LimbBits + 1) \div Pow2(i % LimbBits)) % 2

\* floor(a / 2^t)
BShr(a, t) ==
    LET q == t \div LimbBits
        r == t % LimbBits
    IN  IF q >= Len(a) THEN <<>>
        ELSE BNorm(TupFrom([j \in 1..(Len(a) - q) |->
                 (Limb(a, j + q) \div Pow2(r))
                 + ((Limb(a, j + q + 1) % Pow2(r)) * Pow2(LimbBits - r))],
                 1, Len(a) - q))

\* a * 2^t
BShl(a, t) ==
    LET q == t \div LimbBits
        r == t % LimbBits
    IN  IF Len(a) = 0 THEN <<>>
        ELSE BNorm(TupFrom([j \in 1..(Len(a) + q + 1) |->
                 IF j <= q THEN 0
                 ELSE ((Limb(a, j - q) % Pow2(LimbBits - r)) * Pow2(r))
                      + (Limb(a, j - q - 1) \div Pow2(LimbBits - r))],
                 1, Len(a) + q + 1))

\* some bit among the t lowest bits of a is set
BLowNonZero(a, t) ==
    LET q == t \div LimbBits
        r == t % LimbBits
    IN  \/ \E j \in 1..q : Limb(a, j) # 0
        \/ Limb(a, q + 1) % Pow2(r) # 0

\* -1, 0, 1 as a < b, a = b, a > b
RECURSIVE BCmpFrom(_, _, _)
BCmpFrom(a, b, j) ==
    IF j = 0 THEN 0
    ELSE IF a[j] < b[j] THEN -1
    ELSE IF a[j] > b[j] THEN 1
    ELSE BCmpFrom(a, b, j - 1)

BCmp(a, b) ==
    IF Len(a) < Len(b) THEN -1
    ELSE IF Len(a) > Len(b) THEN 1
    ELSE BCmpFrom(a, b, Len(a))

(***************************************************************************)
(* binary64 values >= 0: [m, e] stands for m * 2^e, where m is zero or has *)
(* exactly MantBits bits.  The exponent range of binary64 is never left by *)
(* the quantities of the services, so it is not bounded here.              *)
(***************************************************************************)
MantBits == 53

FZero == [m |-> <<>>, e |-> 0]

\* the binary64 nearest to a * 2^e (+ a positive amount below one unit of a
\* when sticky), ties to even
FRound(a, e, sticky) ==
    LET n == BBitLen(a)
    IN  IF n = 0 THEN FZero
        ELSE IF n <= MantBits
        THEN [m |-> BShl(a, MantBits - n), e |-> e - (MantBits - n)]
        ELSE LET t     == n - MantBits
                 q     == BShr(a, t)
                 guard == BBit(a, t - 1)
                 rest  == BLowNonZero(a, t - 1) \/ sticky
                 up    == guard = 1 /\ (rest \/ BBit(q, 0) = 1)
                 q2    == IF up THEN BAdd(q, <<1>>) ELSE q
             IN  IF BBitLen(q2) > MantBits
                 THEN [m |-> BShr(q2, 1), e |-> e + t + 1]
                 ELSE [m |-> q2, e |-> e + t]

\* float(n) for an int n >= 0
FromInt(n) == FRound(BFromInt(n), 0, FALSE)

\* x * y
FMul(x, y) ==
    IF Len(x.m) = 0 \/ Len(y.m) = 0 THEN FZero
    ELSE FRound(BMul(x.m, y.m), x.e + y.e, FALSE)

\* x + y
FAdd(x, y) ==
    IF Len(x.m) = 0 THEN y
    ELSE IF Len(y.m) = 0 THEN x
    ELSE LET lo == IF x.e <= y.e THEN x ELSE y
             hi == IF x.e <= y.e THEN y ELSE x
         IN  FRound(BAdd(lo.m, BShl(hi.m, hi.e - lo.e)), lo.e, FALSE)

\* long division of one limb l by b < 2^24 with incoming remainder r < b,
\* half a limb at a time: <<quotient limb, remainder>>
HalfLimb == Pow2(LimbBits \div 2)

DivLimb(r, l, b) ==
    LET t1 == r * HalfLimb + (l \div HalfLimb)
        t2 == (t1 % b) * HalfLimb + (l % HalfLimb)
    IN  <<(t1 \div b) * HalfLimb + (t2 \div b), t2 % b>>

\* quotient limbs (least significant first) and final remainder of a / b,
\* a taken from limb j downward with incoming remainder r
RECURSIVE BDivSmall(_, _, _, _)
BDivSmall(a, b, j, r) ==
    IF j = 0 THEN <<<<>>, r>>
    ELSE LET qr == DivLimb(r, a[j], b)
         IN  IF qr[2] >= 0
             THEN LET rest == BDivSmall(a, b, j - 1, qr[2])
                  IN  <<rest[1] \o <<qr[1]>>, rest[2]>>
             ELSE <<<<>>, 0>>

DivShiftLimbs == 6

\* a / b for ints a >= 0, 0 < b < 2^24 (Python true division, correctly
\* rounded);
\* also the value of the decimal literal a/b
FDivInt(a, b) ==
    IF a = 0 THEN FZero
    ELSE LET num == TupFrom([j \in 1..DivShiftLimbs |-> 0], 1, DivShiftLimbs)
                        \o BFromInt(a)
             d   == BDivSmall(num, b, Len(num), 0)
         IN  FRound(BNorm(d[1]), 0 - DivShiftLimbs * LimbBits, d[2] # 0)

\* -1, 0, 1 as x < y, x = y, x > y
FCmp(x, y) ==
    IF Len(x.m) = 0 /\ Len(y.m) = 0 THEN 0
    ELSE IF Len(x.m) = 0 THEN -1
    ELSE IF Len(y.m) = 0 THEN 1
    ELSE IF x.e < y.e THEN -1
    ELSE IF x.e > y.e THEN 1
    ELSE BCmp(x.m, y.m)

\* int(x): truncation toward zero
FTrunc(x) ==
    IF Len(x.m) = 0 THEN 0
    ELSE IF x.e >= 0 THEN BToInt(BShl(x.m, x.e))
    ELSE BToInt(BShr(x.m, 0 - x.e))


Max(a, b) == IF a >= b THEN a ELSE b
Min(a, b) == IF a <= b THEN a ELSE b

\* the float written as the decimal literal n/100 in the source
Lit(n) == FDivInt(n, 100)

(***************************************************************************)
(* Catalogs of the services                                                *)
(***************************************************************************)
UnitType == {"infantry", "tank", "ship", "aircraft"}

unit_costs == [infantry |-> 10, tank |-> 50, ship |-> 100, aircraft |-> 80]

unit_strength == [infantry |-> 1, tank |-> 5, ship |-> 10, aircraft |-> 8]

initial_units ==
    << <<"infantry", 100>>, <<"tank", 10>>, <<"ship", 5>>, <<"aircraft", 5>> >>

INITIAL_RESOURCES == 1000
initial_population == 1000000
initial_gdp == 1000000000
initial_military_power == 10

DaySeconds == 86400

\* development options; the three bonuses are in hundredths (0.05 is 5)
development_options == [
    infrastructure |-> <<
        [name |-> "Road Network", cost |-> 200, time_days |-> 1,
         infrastructure_bonus |-> 5, research_bonus |-> 0, trade_bonus |-> 2],
        [name |-> "Power Grid", cost |-> 300, time_days |-> 2,
         infrastructure_bonus |-> 8, research_bonus |-> 1, trade_bonus |-> 1],
        [name |-> "Urban Development", cost |-> 500, time_days |-> 3,
         infrastructure_bonus |-> 10, research_bonus |-> 2, trade_bonus |-> 3] >>,
    research |-> <<
        [name |-> "Basic Research", cost |-> 250, time_days |-> 2,
         infrastructure_bonus |-> 0, research_bonus |-> 5, trade_bonus |-> 0],
        [name |-> "Military Technology", cost |-> 400, time_days |-> 3,
         infrastructure_bonus |-> 0, research_bonus |-> 8, trade_bonus |-> 1],
        [name |-> "Advanced Research Center", cost |-> 600, time_days |-> 5,
         infrastructure_bonus |-> 2, research_bonus |-> 12, trade_bonus |-> 2] >>,
    trade |-> <<
        [name |-> "Trade Agreements", cost |-> 150, time_days |-> 1,
         infrastructure_bonus |-> 0, research_bonus |-> 0, trade_bonus |-> 5],
        [name |-> "Port Expansion", cost |-> 350, time_days |-> 2,
         infrastructure_bonus |-> 3, research_bonus |-> 0, trade_bonus |-> 8],
        [name |-> "Global Trade Network", cost |-> 550, time_days |-> 4,
         infrastructure_bonus |-> 2, research_bonus |-> 1, trade_bonus |-> 15] >> ]

DevelopmentCategory == {"infrastructure", "research", "trade"}

(***************************************************************************)
(* MilitaryService: pure parts.  A unit row is                             *)
(* [country_id, unit_type, quantity, technology_level].                    *)
(***************************************************************************)
RECURSIVE SumFrom(_, _)
SumFrom(s, i) == IF i > Len(s) THEN 0 ELSE s[i] + SumFrom(s, i + 1)

SumSeq(s) == SumFrom(s, 1)

RECURSIVE SelectRows(_, _)
SelectRows(rows, cid) ==
    IF Len(rows) = 0 THEN <<>>
    ELSE (IF Head(rows).country_id = cid THEN <<Head(rows)>> ELSE <<>>)
         \o SelectRows(Tail(rows), cid)

\* calculate_military_strength over the unit rows of one country
StrengthOf(units) ==
    SumSeq([i \in 1..Len(units) |->
        units[i].quantity * unit_strength[units[i].unit_type]
                          * units[i].technology_level])

\* the float literals of _calculate_battle_result
victory_threshold == Lit(120)
defeat_threshold == Lit(80)
winner_factor == Lit(70)
loser_factor == Lit(130)

\* adjusted_ratio = (attacker_strength / max(defender_strength, 1)) * random_factor
AdjustedRatio(attacker_strength, defender_strength, random_factor) ==
    FMul(FDivInt(attacker_strength, Max(defender_strength, 1)), Lit(random_factor))

\* a variant of the outcome rule whose thresholds are inclusive (>= 1.2 is a
\* victory, <= 0.8 a defeat)
BattleOutcomeInclusive(attacker_strength, defender_strength, random_factor) ==
    LET adjusted_ratio ==
            AdjustedRatio(attacker_strength, defender_strength, random_factor)
    IN  IF FCmp(adjusted_ratio, victory_threshold) >= 0 THEN "victory"
        ELSE IF FCmp(adjusted_ratio, defeat_threshold) <= 0 THEN "defeat"
        ELSE "draw"

\* the outcome rule of _calculate_battle_result
BattleOutcome(attacker_strength, defender_strength, random_factor) ==
    LET adjusted_ratio ==
            AdjustedRatio(attacker_strength, defender_strength, random_factor)
    IN  IF FCmp(adjusted_ratio, victory_threshold) > 0 THEN "victory"
        ELSE IF FCmp(adjusted_ratio, defeat_threshold) < 0 THEN "defeat"
        ELSE "draw"

\* the casualty rate of one side: base * 0.7 for the winner, base * 1.3 for
\* the loser, base on a draw
CasualtyRate(base_casualty_rate, result, side) ==
    IF result = "draw" THEN Lit(base_casualty_rate)
    ELSE IF (result = "victory") = (side = "attacker")
    THEN FMul(Lit(base_casualty_rate), winner_factor)
    ELSE FMul(Lit(base_casualty_rate), loser_factor)

\* casualties = int(strength * casualty_rate)
Casualties(strength, base_casualty_rate, result, side) ==
    FTrunc(FMul(FromInt(strength),
                CasualtyRate(base_casualty_rate, result, side)))

\* the first half of _calculate_battle_result: the outcome and the casualties
\* of both sides; the random.uniform draws are arguments, in hundredths
BattleCasualties(attacker_strength, defender_strength, random_factor, base_casualty_rate) ==
    LET result == BattleOutcome(attacker_strength, defender_strength,
                                random_factor)
    IN  [result |-> result,
         casualties_attacker |->
             Casualties(attacker_strength, base_casualty_rate, result,
                        "attacker"),
         casualties_defender |->
             Casualties(defender_strength, base_casualty_rate, result,
                        "defender")]

\* the second half: territory gained and resources captured
BattleSpoils(result, defender_resources, territory_draw, resources_draw) ==
    [territory_gained |->
         IF result = "victory"
         THEN FTrunc(FMul(Lit(territory_draw), FromInt(100))) ELSE 0,
     resources_captured |->
         IF result = "victory"
         THEN FTrunc(FMul(Lit(resources_draw), FromInt(defender_resources)))
         ELSE 0]

\* _calculate_battle_result
CalculateBattleResult(attacker_strength, defender_strength, defender_resources, random_factor, base_casualty_rate, territory_draw, resources_draw) ==
    LET c == BattleCasualties(attacker_strength, defender_strength,
                              random_factor, base_casualty_rate)
        s == BattleSpoils(c.result, defender_resources, territory_draw,
                          resources_draw)
    IN  [result |-> c.result,
         casualties_attacker |-> c.casualties_attacker,
         casualties_defender |-> c.casualties_defender,
         territory_gained |-> s.territory_gained,
         resources_captured |-> s.resources_captured]

\* a variant of the casualties of one unit row without the clamp to the
\* quantity of the row
UnitCasualtiesUnclamped(unit, total_strength, total_casualties) ==
    FTrunc(FMul(FromInt(total_casualties),
                FDivInt(unit.quantity * unit_strength[unit.unit_type],
                        total_strength)))

\* the casualties one unit row takes in _apply_casualties
UnitCasualties(unit, total_strength, total_casualties) ==
    Min(FTrunc(FMul(FromInt(total_casualties),
                    FDivInt(unit.quantity * unit_strength[unit.unit_type],
                            total_strength))),
        unit.quantity)

\* _apply_casualties: the MilitaryUnit table afterwards
ApplyCasualties(rows, country_id, total_casualties) ==
    LET units == SelectRows(rows, country_id)
        total_strength ==
            SumSeq([i \in 1..Len(units) |->
                units[i].quantity * unit_strength[units[i].unit_type]])
    IN  IF Len(units) = 0 \/ total_strength = 0 THEN rows
        ELSE TupFrom([i \in 1..Len(rows) |->
                IF rows[i].country_id = country_id
                THEN [rows[i] EXCEPT !.quantity =
                         @ - UnitCasualties(rows[i], total_strength,
                                            total_casualties)]
                ELSE rows[i]], 1, Len(rows))

(***************************************************************************)
(* DevelopmentService: pure parts                                          *)
(***************************************************************************)
\* ids of the developments the sweep selects at time t, ascending
RECURSIVE DueFrom(_, _, _)
DueFrom(devs, t, i) ==
    IF i > Len(devs) THEN <<>>
    ELSE (IF devs[i].status = "in_progress" /\ devs[i].end_time <= t
          THEN <<i>> ELSE <<>>) \o DueFrom(devs, t, i + 1)

\* a variant of the selection that takes end_time < now
DueDevelopmentsBefore(devs, t) == DueFrom(devs, t - 1, 1)

DueDevelopments(devs, t) == DueFrom(devs, t, 1)

\* a variant of the bonuses that leaves the resources as they are
ApplyBonusesWithoutTrade(country, development) ==
    [country EXCEPT
        !.gdp = FTrunc(FMul(FromInt(@),
                    FAdd(FromInt(1), Lit(development.infrastructure_bonus)))),
        !.military_power = FTrunc(FMul(FromInt(@),
                    FAdd(FromInt(1), Lit(development.research_bonus))))]

\* the bonuses of one development applied to a Country object
ApplyBonuses(country, development) ==
    [country EXCEPT
        !.gdp = FTrunc(FMul(FromInt(@),
                    FAdd(FromInt(1), Lit(development.infrastructure_bonus)))),
        !.military_power = FTrunc(FMul(FromInt(@),
                    FAdd(FromInt(1), Lit(development.research_bonus)))),
        !.resources = @ + FTrunc(FMul(FromInt(@),
                    Lit(development.trade_bonus)))]

\* a variant of the loop below that applies the bonuses and leaves the status
\* of the records as it is
RECURSIVE CompleteAllKeepStatus(_, _, _, _)
CompleteAllKeepStatus(cs, devs, ids, i) ==
    IF i > Len(ids) THEN <<cs, devs>>
    ELSE LET d   == devs[ids[i]]
             cid == d.country_id
         IN  CompleteAllKeepStatus(
                 IF cid >= 1 /\ cid <= Len(cs)
                 THEN [cs EXCEPT ![cid] = ApplyBonuses(@, d)] ELSE cs,
                 devs, ids, i + 1)

\* the loop of check_completed_developments over the selected ids, from the
\* i-th on: <<Country table, Development table>> afterwards
RECURSIVE CompleteAll(_, _, _, _)
CompleteAll(cs, devs, ids, i) ==
    IF i > Len(ids) THEN <<cs, devs>>
    ELSE LET d   == devs[ids[i]]
             cid == d.country_id
         IN  CompleteAll(
                 IF cid >= 1 /\ cid <= Len(cs)
                 THEN [cs EXCEPT ![cid] = ApplyBonuses(@, d)] ELSE cs,
                 [devs EXCEPT ![ids[i]].status = "completed"],
                 ids, i + 1)

(***************************************************************************)
(* The store (database/models.py) and the service operations.  Tables are  *)
(* sequences; the primary key of a row is its index.  Every action is one  *)
(* call of a service method, from its first statement to its last commit.  *)
(* create_country commits twice, the Country row first and its initial     *)
(* MilitaryUnit rows second, and other callers can see the store between   *)
(* the two commits: SpecCreation takes the call as two steps.              *)
(*                                                                         *)
(* The services construct TransactionLog and models.py uses BigInteger     *)
(* without importing them; both names are read as the class of that name   *)
(* (database.models.TransactionLog, sqlalchemy.BigInteger).                *)
(***************************************************************************)
VARIABLES
    countries,         \* Country rows
    military_units,    \* MilitaryUnit rows
    developments,      \* Development rows
    battles,           \* Battle rows
    transaction_logs,  \* TransactionLog rows
    alliances,         \* Alliance rows, a set of records with their id
    country_alliance,  \* rows <<country_id, alliance_id>> of country_alliance
    command_logs,      \* CommandLog rows
    now,               \* datetime.utcnow(), in seconds
    creating,          \* ids of the countries whose create_country call is
                       \* between its two commits
    reply,             \* what the last finished service call returned or raised
    sess,              \* the sessions of concurrently running sweeps
    call               \* arguments and result of a method called on its own

vars == <<countries, military_units, developments, battles, transaction_logs,
          alliances, country_alliance, command_logs,
          now, creating, reply, sess, call>>

store == <<countries, military_units, developments, battles, transaction_logs,
           alliances, country_alliance, command_logs>>

\* bounds of the model
MaxUsers == 2
MaxLogs == 1
MaxBattles == 1
MaxDevelopments == 1
MaxDays == 1

UserIds == 1..MaxUsers
CountryIds == 1..MaxUsers
CountryNames == {"Aria", "Boreal"}
TimePoints == {d * DaySeconds : d \in 0..MaxDays}

\* arguments the callers pass
UnitTypeStrings == {"infantry", "ship", "cavalry"}
BuildQuantities == {0, 100}
ResourceAmounts == {-1500, -1000, 500}
CategoryStrings == {"infrastructure", "trade", "culture"}
OptionNames == {"Road Network", "Global Trade Network", "Canal"}

\* values random.uniform is pinned to, in hundredths
RandomFactors == {80, 120}
BaseCasualtyRates == {10, 30}
TerritoryDraws == {5, 15}
ResourcesDraws == {10, 20}

Ok(op, value) == [op |-> op, error |-> "none", value |-> value]
Raise(op, error) == [op |-> op, error |-> error, value |-> 0]

CountryExists(cid) == cid >= 1 /\ cid <= Len(countries)

Idle == [s \in {} |-> 0]

Init ==
    /\ countries = <<>>
    /\ military_units = <<>>
    /\ developments = <<>>
    /\ battles = <<>>
    /\ transaction_logs = <<>>
    /\ alliances = {}
    /\ country_alliance = {}
    /\ command_logs = <<>>
    /\ now = 0
    /\ creating = {}
    /\ reply = Ok("init", 0)
    /\ sess = Idle
    /\ call = Idle

\* the Country row create_country adds
NewCountry(user_id, name) ==
    [name |-> name, user_id |-> user_id,
     population |-> initial_population, gdp |-> initial_gdp,
     military_power |-> initial_military_power,
     resources |-> INITIAL_RESOURCES]

\* the MilitaryUnit rows _create_initial_military_units adds
InitialUnitRows(country_id) ==
    TupFrom([i \in 1..Len(initial_units) |->
                [country_id |-> country_id,
                 unit_type |-> initial_units[i][1],
                 quantity |-> initial_units[i][2],
                 technology_level |-> 1]], 1, Len(initial_units))

\* CountryService.create_country, with _create_initial_military_units
CreateCountry(user_id, name, enums_valid) ==
    /\ IF \E i \in 1..Len(countries) : countries[i].name = name
       THEN /\ reply' = Raise("create_country", "ValidationError")
            /\ UNCHANGED store
       ELSE IF \E i \in 1..Len(countries) : countries[i].user_id = user_id
       THEN /\ reply' = Raise("create_country", "ResourceError")
            /\ UNCHANGED store
       ELSE IF ~enums_valid
       THEN /\ reply' = Raise("create_country", "ValidationError")
            /\ UNCHANGED store
       ELSE /\ countries' = Append(countries, NewCountry(user_id, name))
            /\ military_units' =
                   military_units \o InitialUnitRows(Len(countries) + 1)
            /\ reply' = Ok("create_country", Len(countries) + 1)
            /\ UNCHANGED <<developments, battles, transaction_logs>>
    /\ UNCHANGED <<now, creating, sess, call,
                   alliances, country_alliance, command_logs>>

\* index of the first unit row of the country with the type, 0 if none
RECURSIVE FirstUnit(_, _, _, _)
FirstUnit(rows, cid, unit_type, i) ==
    IF i > Len(rows) THEN 0
    ELSE IF rows[i].country_id = cid /\ rows[i].unit_type = unit_type THEN i
    ELSE FirstUnit(rows, cid, unit_type, i + 1)

\* a variant of the purchase that sets the quantity of the row to the
\* quantity bought
AddUnitsReplacing(rows, country_id, unit_type, quantity) ==
    IF FirstUnit(rows, country_id, unit_type, 1) = 0
    THEN Append(rows, [country_id |-> country_id, unit_type |-> unit_type,
                       quantity |-> quantity, technology_level |-> 1])
    ELSE [rows EXCEPT
             ![FirstUnit(rows, country_id, unit_type, 1)].quantity = quantity]

\* the MilitaryUnit table after build_army added quantity units of the type
AddUnits(rows, country_id, unit_type, quantity) ==
    IF FirstUnit(rows, country_id, unit_type, 1) = 0
    THEN Append(rows, [country_id |-> country_id, unit_type |-> unit_type,
                       quantity |-> quantity, technology_level |-> 1])
    ELSE [rows EXCEPT
             ![FirstUnit(rows, country_id, unit_type, 1)].quantity =
                 @ + quantity]

\* a variant of build_army that adds the units before it checks the resources
BuildArmyChecksLate(country_id, unit_type_str, quantity) ==
    /\ IF unit_type_str \notin UnitType
       THEN /\ reply' = Raise("build_army", "ValidationError")
            /\ UNCHANGED store
       ELSE IF quantity <= 0
       THEN /\ reply' = Raise("build_army", "ValidationError")
            /\ UNCHANGED store
       ELSE IF ~CountryExists(country_id)
       THEN /\ reply' = Raise("build_army", "ValidationError")
            /\ UNCHANGED store
       ELSE IF countries[country_id].resources
                   < unit_costs[unit_type_str] * quantity
       THEN /\ reply' = Raise("build_army", "ResourceError")
            /\ military_units' =
                   AddUnits(military_units, country_id, unit_type_str, quantity)
            /\ UNCHANGED <<countries, developments, battles, transaction_logs>>
       ELSE /\ Len(transaction_logs) < MaxLogs
            /\ military_units' =
                   AddUnits(military_units, country_id, unit_type_str, quantity)
            /\ countries' = [countries EXCEPT ![country_id].resources =
                                @ - unit_costs[unit_type_str] * quantity]
            /\ transaction_logs' = Append(transaction_logs,
                   [country_id |-> country_id,
                    transaction_type |-> "build_army",
                    amount |-> 0 - unit_costs[unit_type_str] * quantity])
            /\ reply' = Ok("build_army", unit_costs[unit_type_str] * quantity)
            /\ UNCHANGED <<developments, battles>>
    /\ UNCHANGED <<now, creating, sess, call,
                   alliances, country_alliance, command_logs>>

\* MilitaryService.build_army
BuildArmy(country_id, unit_type_str, quantity) ==
    /\ IF unit_type_str \notin UnitType
       THEN /\ reply' = Raise("build_army", "ValidationError")
            /\ UNCHANGED store
       ELSE IF quantity <= 0
       THEN /\ reply' = Raise("build_army", "ValidationError")
            /\ UNCHANGED store
       ELSE IF ~CountryExists(country_id)
       THEN /\ reply' = Raise("build_army", "ValidationError")
            /\ UNCHANGED store
       ELSE IF countries[country_id].resources
                   < unit_costs[unit_type_str] * quantity
       THEN /\ reply' = Raise("build_army", "ResourceError")
            /\ UNCHANGED store
       ELSE /\ Len(transaction_logs) < MaxLogs
            /\ military_units' =
                   AddUnits(military_units, country_id, unit_type_str, quantity)
            /\ countries' = [countries EXCEPT ![country_id].resources =
                                @ - unit_costs[unit_type_str] * quantity]
            /\ transaction_logs' = Append(transaction_logs,
                   [country_id |-> country_id,
                    transaction_type |-> "build_army",
                    amount |-> 0 - unit_costs[unit_type_str] * quantity])
            /\ reply' = Ok("build_army", unit_costs[unit_type_str] * quantity)
            /\ UNCHANGED <<developments, battles>>
    /\ UNCHANGED <<now, creating, sess, call,
                   alliances, country_alliance, command_logs>>

\* a variant of update_resources without the check of the balance
UpdateResourcesUnchecked(country_id, amount) ==
    /\ IF ~CountryExists(country_id)
       THEN /\ reply' = Raise("update_resources", "ValidationError")
            /\ UNCHANGED store
       ELSE /\ Len(transaction_logs) < MaxLogs
            /\ countries' = [countries EXCEPT ![country_id].resources = @ + amount]
            /\ transaction_logs' = Append(transaction_logs,
                   [country_id |-> country_id,
                    transaction_type |-> "resources", amount |-> amount])
            /\ reply' = Ok("update_resources",
                           countries[country_id].resources + amount)
            /\ UNCHANGED <<military_units, developments, battles>>
    /\ UNCHANGED <<now, creating, sess, call,
                   alliances, country_alliance, command_logs>>

\* CountryService.update_resources
UpdateResources(country_id, amount) ==
    /\ IF ~CountryExists(country_id)
       THEN /\ reply' = Raise("update_resources", "ValidationError")
            /\ UNCHANGED store
       ELSE IF amount < 0 /\ countries[country_id].resources + amount < 0
       THEN /\ reply' = Raise("update_resources", "ResourceError")
            /\ UNCHANGED store
       ELSE /\ Len(transaction_logs) < MaxLogs
            /\ countries' = [countries EXCEPT ![country_id].resources = @ + amount]
            /\ transaction_logs' = Append(transaction_logs,
                   [country_id |-> country_id,
                    transaction_type |-> "resources", amount |-> amount])
            /\ reply' = Ok("update_resources",
                           countries[country_id].resources + amount)
            /\ UNCHANGED <<military_units, developments, battles>>
    /\ UNCHANGED <<now, creating, sess, call,
                   alliances, country_alliance, command_logs>>

\* index of the option with the name in a list of options, 0 if none
RECURSIVE FindOption(_, _, _)
FindOption(options, option_name, i) ==
    IF i > Len(options) THEN 0
    ELSE IF options[i].name = option_name THEN i
    ELSE FindOption(options, option_name, i + 1)

\* a variant of the Development row that ends when it starts
NewDevelopmentInstant(country_id, category, option, start_time) ==
    [country_id |-> country_id, category |-> category, name |-> option.name,
     resource_cost |-> option.cost,
     start_time |-> start_time,
     end_time |-> start_time,
     status |-> "in_progress",
     infrastructure_bonus |-> option.infrastructure_bonus,
     research_bonus |-> option.research_bonus,
     trade_bonus |-> option.trade_bonus]

\* the Development row start_development adds for an option of the catalog
NewDevelopment(country_id, category, option, start_time) ==
    [country_id |-> country_id, category |-> category, name |-> option.name,
     resource_cost |-> option.cost,
     start_time |-> start_time,
     end_time |-> start_time + option.time_days * DaySeconds,
     status |-> "in_progress",
     infrastructure_bonus |-> option.infrastructure_bonus,
     research_bonus |-> option.research_bonus,
     trade_bonus |-> option.trade_bonus]

\* DevelopmentService.start_development, in a store that holds at most
\* max_logs TransactionLog rows and max_developments Development rows
StartDevelopmentWithin(country_id, category_str, option_name, max_logs, max_developments) ==
    /\ IF category_str \notin DevelopmentCategory
       THEN /\ reply' = Raise("start_development", "ValidationError")
            /\ UNCHANGED store
       ELSE IF FindOption(development_options[category_str], option_name, 1) = 0
       THEN /\ reply' = Raise("start_development", "ValidationError")
            /\ UNCHANGED store
       ELSE IF ~CountryExists(country_id)
       THEN /\ reply' = Raise("start_development", "ValidationError")
            /\ UNCHANGED store
       ELSE \E option \in
                   {development_options[category_str][
                        FindOption(development_options[category_str],
                                   option_name, 1)]} :
               IF countries[country_id].resources < option.cost
               THEN /\ reply' = Raise("start_development", "ResourceError")
                    /\ UNCHANGED store
               ELSE /\ Len(transaction_logs) < max_logs
                    /\ Len(developments) < max_developments
                    /\ developments' = Append(developments,
                           NewDevelopment(country_id, category_str, option, now))
                    /\ countries' = [countries EXCEPT
                           ![country_id].resources = @ - option.cost]
                    /\ transaction_logs' = Append(transaction_logs,
                           [country_id |-> country_id,
                            transaction_type |-> "development",
                            amount |-> 0 - option.cost])
                    /\ reply' = Ok("start_development", Len(developments) + 1)
                    /\ UNCHANGED <<military_units, battles>>
    /\ UNCHANGED <<now, creating, sess, call,
                   alliances, country_alliance, command_logs>>

\* DevelopmentService.start_development
StartDevelopment(country_id, category_str, option_name) ==
    StartDevelopmentWithin(country_id, category_str, option_name, MaxLogs, MaxDevelopments)

\* a variant of the checks of attack() that lets a country attack itself
AttackErrorNoSelfCheck(attacker_id, defender_id) ==
    IF ~CountryExists(attacker_id) THEN "ValidationError"
    ELSE IF ~CountryExists(defender_id) THEN "ValidationError"
    ELSE IF StrengthOf(SelectRows(military_units, attacker_id)) <= 0
    THEN "ResourceError"
    ELSE "none"

\* the checks at the head of attack(): the error raised, "none" if none is
AttackError(attacker_id, defender_id) ==
    IF ~CountryExists(attacker_id) THEN "ValidationError"
    ELSE IF ~CountryExists(defender_id) THEN "ValidationError"
    ELSE IF attacker_id = defender_id THEN "ValidationError"
    ELSE IF StrengthOf(SelectRows(military_units, attacker_id)) <= 0
    THEN "ResourceError"
    ELSE "none"

\* a variant of the Battle row that records the strengths left after the
\* casualties
BattleRowAfterCasualties(attacker_id, defender_id, attacker_strength, defender_strength, c, s) ==
    [attacker_id |-> attacker_id, defender_id |-> defender_id,
     attacker_strength |-> attacker_strength - c.casualties_attacker,
     defender_strength |-> defender_strength - c.casualties_defender,
     result |-> c.result,
     casualties_attacker |-> c.casualties_attacker,
     casualties_defender |-> c.casualties_defender,
     territory_gained |-> s.territory_gained,
     resources_captured |-> s.resources_captured,
     battle_date |-> now]

\* the Battle row attack() adds; c and s are the two halves of the result
BattleRow(attacker_id, defender_id, attacker_strength, defender_strength, c, s) ==
    [attacker_id |-> attacker_id, defender_id |-> defender_id,
     attacker_strength |-> attacker_strength,
     defender_strength |-> defender_strength,
     result |-> c.result,
     casualties_attacker |-> c.casualties_attacker,
     casualties_defender |-> c.casualties_defender,
     territory_gained |-> s.territory_gained,
     resources_captured |-> s.resources_captured,
     battle_date |-> now]

\* a variant of the transfer that credits the attacker and does not debit the
\* defender
TransferResourcesCreditOnly(cs, attacker_id, defender_id, result, resources_captured) ==
    IF result = "victory"
    THEN [cs EXCEPT ![attacker_id].resources = @ + resources_captured]
    ELSE cs

\* the Country table after the resource transfer of attack()
TransferResources(cs, attacker_id, defender_id, result, resources_captured) ==
    IF result = "victory"
    THEN [cs EXCEPT ![attacker_id].resources = @ + resources_captured,
                    ![defender_id].resources = @ - resources_captured]
    ELSE cs

\* MilitaryService.attack
Attack(attacker_id, defender_id) ==
    /\ IF AttackError(attacker_id, defender_id) # "none"
       THEN /\ reply' = Raise("attack", AttackError(attacker_id, defender_id))
            /\ UNCHANGED store
       ELSE /\ Len(battles) < MaxBattles
            /\ \E attacker_strength \in
                      {StrengthOf(SelectRows(military_units, attacker_id))},
                  defender_strength \in
                      {StrengthOf(SelectRows(military_units, defender_id))},
                  random_factor \in RandomFactors,
                  base_casualty_rate \in BaseCasualtyRates :
                \E c \in {BattleCasualties(attacker_strength,
                              defender_strength, random_factor,
                              base_casualty_rate)} :
                    /\ military_units' =
                           ApplyCasualties(
                               ApplyCasualties(military_units, attacker_id,
                                               c.casualties_attacker),
                               defender_id, c.casualties_defender)
                    /\ \E territory_draw \in TerritoryDraws,
                          resources_draw \in ResourcesDraws :
                        \E s \in {BattleSpoils(c.result,
                                      countries[defender_id].resources,
                                      territory_draw, resources_draw)} :
                            /\ countries' = TransferResources(countries,
                                   attacker_id, defender_id, c.result,
                                   s.resources_captured)
                            /\ battles' = Append(battles,
                                   BattleRow(attacker_id, defender_id,
                                       attacker_strength, defender_strength,
                                       c, s))
                    /\ reply' = Ok("attack", Len(battles) + 1)
                    /\ UNCHANGED <<developments, transaction_logs>>
    /\ UNCHANGED <<now, creating, sess, call,
                   alliances, country_alliance, command_logs>>

\* what a sweep returns: the ids it completed; with it the time of the call,
\* whether the call before it was a sweep at the same time, and what that one
\* returned
SweepReply(completed) ==
    [op |-> "sweep", error |-> "none", value |-> completed, at |-> now,
     repeated |-> reply.op = "sweep" /\ reply.at = now,
     previous |-> IF reply.op = "sweep" /\ reply.at = now
                  THEN reply.value ELSE <<>>]

\* the bounds of config.py
MIN_POPULATION == 1000000
MAX_POPULATION == 1000000000
MIN_GDP == 1000000000
MIN_MILITARY_POWER == 1
MAX_MILITARY_POWER == 100

\* MAX_GDP, 100_000_000_000_000, as a number of limbs: it is above 2^31
MAX_GDP == BMul(BFromInt(10000000), BFromInt(10000000))

\* a table without constraints
NoConstraints(country) == TRUE

\* the CheckConstraints of the countries table, which the store evaluates
\* when a row is written
CheckConstraints(country) ==
    /\ country.population >= MIN_POPULATION /\ country.population <= MAX_POPULATION
    /\ country.gdp >= MIN_GDP /\ BCmp(BFromInt(country.gdp), MAX_GDP) <= 0
    /\ country.military_power >= MIN_MILITARY_POWER
    /\ country.military_power <= MAX_MILITARY_POWER

\* DevelopmentService.check_completed_developments, run alone.  When a row
\* it changed breaks a constraint, db.commit() raises IntegrityError and
\* nothing is written.
Sweep ==
    /\ \E completed \in {DueDevelopments(developments, now)} :
           \E after \in {CompleteAll(countries, developments, completed, 1)} :
               IF \A i \in 1..Len(after[1]) : CheckConstraints(after[1][i])
               THEN /\ countries' = after[1]
                    /\ developments' = after[2]
                    /\ reply' = SweepReply(completed)
               ELSE /\ UNCHANGED <<countries, developments>>
                    /\ reply' = [SweepReply(<<>>) EXCEPT !.error = "IntegrityError"]
    /\ UNCHANGED <<military_units, battles, transaction_logs, now, creating,
                   sess, call,
                   alliances, country_alliance, command_logs>>

\* the clock advances
Tick ==
    /\ \E t \in TimePoints : t > now /\ now' = t
    /\ UNCHANGED <<store, creating, reply, sess, call>>

Next ==
    \/ \E u \in UserIds, n \in CountryNames, v \in BOOLEAN :
           CreateCountry(u, n, v)
    \/ \E c \in CountryIds, t \in UnitTypeStrings, q \in BuildQuantities :
           BuildArmy(c, t, q)
    \/ \E c \in CountryIds, a \in ResourceAmounts : UpdateResources(c, a)
    \/ \E c \in CountryIds, g \in CategoryStrings, o \in OptionNames :
           StartDevelopment(c, g, o)
    \/ \E a \in CountryIds, d \in CountryIds : Attack(a, d)
    \/ Sweep
    \/ Tick

Spec == Init /\ [][Next]_vars

(***************************************************************************)
(* create_country as its two commits, with attacks and purchases by other  *)
(* callers between them                                                    *)
(***************************************************************************)
\* CountryService.create_country up to its first commit
CreateCountryRow(user_id, name, enums_valid) ==
    /\ IF \E i \in 1..Len(countries) : countries[i].name = name
       THEN /\ reply' = Raise("create_country", "ValidationError")
            /\ UNCHANGED <<store, creating>>
       ELSE IF \E i \in 1..Len(countries) : countries[i].user_id = user_id
       THEN /\ reply' = Raise("create_country", "ResourceError")
            /\ UNCHANGED <<store, creating>>
       ELSE IF ~enums_valid
       THEN /\ reply' = Raise("create_country", "ValidationError")
            /\ UNCHANGED <<store, creating>>
       ELSE /\ countries' = Append(countries, NewCountry(user_id, name))
            /\ creating' = creating \cup {Len(countries) + 1}
            /\ UNCHANGED <<military_units, developments, battles,
                           transaction_logs, reply>>
    /\ UNCHANGED <<now, sess, call,
                   alliances, country_alliance, command_logs>>

\* CountryService._create_initial_military_units and the return of
\* create_country
CreateInitialMilitaryUnits(country_id) ==
    /\ country_id \in creating
    /\ military_units' = military_units \o InitialUnitRows(country_id)
    /\ creating' = creating \ {country_id}
    /\ reply' = Ok("create_country", country_id)
    /\ UNCHANGED <<countries, developments, battles, transaction_logs, now,
                   sess, call,
                   alliances, country_alliance, command_logs>>

NextCreation ==
    \/ \E u \in UserIds, n \in CountryNames, v \in BOOLEAN :
           CreateCountryRow(u, n, v)
    \/ \E c \in CountryIds : CreateInitialMilitaryUnits(c)
    \/ \E c \in CountryIds, t \in UnitTypeStrings, q \in BuildQuantities :
           BuildArmy(c, t, q)
    \/ \E a \in CountryIds, d \in CountryIds : Attack(a, d)

SpecCreation == Init /\ [][NextCreation]_vars

(***************************************************************************)
(* Concurrent sweeps.  Every caller of check_completed_developments has a  *)
(* session of its own (database/__init__.py: autoflush off).  A session    *)
(* reads committed rows when it queries, keeps the objects it loaded, and  *)
(* writes the attributes it set when it commits.                           *)
(***************************************************************************)
MaxSessions == 2

Sessions == 1..MaxSessions

\* the Country object a session works on: the one it holds, else the
\* committed row
CountryObject(loaded, cid) ==
    IF cid \in DOMAIN loaded THEN loaded[cid] ELSE countries[cid]

\* a store with one country and one development of the catalog that is due
InitSweeps ==
    \E category \in DevelopmentCategory :
        \E k \in 1..Len(development_options[category]) :
            \E option \in {development_options[category][k]} :
                /\ countries = << [NewCountry(1, "Aria") EXCEPT
                                      !.resources = @ - option.cost] >>
                /\ military_units = InitialUnitRows(1)
                /\ developments = << NewDevelopment(1, category, option, 0) >>
                /\ battles = <<>>
                /\ transaction_logs =
                       << [country_id |-> 1,
                           transaction_type |-> "development",
                           amount |-> 0 - option.cost] >>
                /\ alliances = {}
                /\ country_alliance = {}
                /\ command_logs = <<>>
                /\ now = option.time_days * DaySeconds
                /\ creating = {}
                /\ reply = Ok("start_development", 1)
                /\ sess = [s \in Sessions |->
                              [pc |-> "idle", completed |-> <<>>, i |-> 1,
                               loaded |-> Idle]]
                /\ call = Idle

\* the query of the sweep: the session loads the developments that are due
SweepQuery(s) ==
    /\ sess[s].pc = "idle"
    /\ sess' = [sess EXCEPT
                   ![s].pc = "loop",
                   ![s].completed = DueDevelopments(developments, now)]
    /\ UNCHANGED <<store, now, creating, reply, call>>

\* one turn of the loop of the sweep: the session marks the development, loads
\* its country unless it holds it, and applies the bonuses to the object
SweepComplete(s) ==
    /\ sess[s].pc = "loop"
    /\ sess[s].i <= Len(sess[s].completed)
    /\ \E d \in {developments[sess[s].completed[sess[s].i]]} :
           sess' = [sess EXCEPT
               ![s].i = @ + 1,
               ![s].loaded =
                   IF CountryExists(d.country_id)
                   THEN [c \in DOMAIN @ \cup {d.country_id} |->
                            IF c = d.country_id
                            THEN ApplyBonuses(CountryObject(@, c), d)
                            ELSE @[c]]
                   ELSE @]
    /\ UNCHANGED <<store, now, creating, reply, call>>

\* the commit of the sweep: the status of the developments the session
\* selected and the countries it changed are written
SweepCommit(s) ==
    /\ sess[s].pc = "loop"
    /\ sess[s].i > Len(sess[s].completed)
    /\ developments' = TupFrom(
           [j \in 1..Len(developments) |->
               IF \E i \in 1..Len(sess[s].completed) : sess[s].completed[i] = j
               THEN [developments[j] EXCEPT !.status = "completed"]
               ELSE developments[j]], 1, Len(developments))
    /\ countries' = TupFrom(
           [c \in 1..Len(countries) |-> CountryObject(sess[s].loaded, c)],
           1, Len(countries))
    /\ sess' = [sess EXCEPT ![s].pc = "done"]
    /\ UNCHANGED <<military_units, battles, transaction_logs, now, creating,
                   reply, call,
                   alliances, country_alliance, command_logs>>

NextSweeps ==
    \/ \E s \in Sessions : SweepQuery(s)
    \/ \E s \in Sessions : SweepComplete(s)
    \/ \E s \in Sessions : SweepCommit(s)

SpecSweeps == InitSweeps /\ [][NextSweeps]_vars

(***************************************************************************)
(* _calculate_battle_result and _apply_casualties called on their own      *)
(***************************************************************************)
\* arguments of _calculate_battle_result; the strengths are sums of
\* quantity * unit strength, the draws are in hundredths
AttackerStrengths == {8, 235, 500, 1000}
DefenderStrengths == {0, 9, 235, 500, 1000}
DefenderResources == {0, 1000}
PinnedRandomFactors == {80, 90, 100, 120}
PinnedBaseCasualtyRates == {10, 20, 30}

NoStore ==
    /\ countries = <<>>
    /\ developments = <<>>
    /\ battles = <<>>
    /\ transaction_logs = <<>>
    /\ alliances = {}
    /\ country_alliance = {}
    /\ command_logs = <<>>
    /\ now = 0
    /\ creating = {}
    /\ reply = Ok("init", 0)
    /\ sess = Idle

InitBattle ==
    /\ NoStore
    /\ military_units = <<>>
    /\ call \in [attacker_strength : AttackerStrengths,
                 defender_strength : DefenderStrengths,
                 defender_resources : DefenderResources,
                 random_factor : PinnedRandomFactors,
                 base_casualty_rate : PinnedBaseCasualtyRates,
                 territory_draw : TerritoryDraws,
                 resources_draw : ResourcesDraws,
                 done : {FALSE}, out : {<<>>}]

\* one call of _calculate_battle_result with the arguments drawn
CallCalculateBattleResult ==
    /\ ~call.done
    /\ call' = [call EXCEPT
                   !.done = TRUE,
                   !.out = CalculateBattleResult(call.attacker_strength,
                               call.defender_strength, call.defender_resources,
                               call.random_factor, call.base_casualty_rate,
                               call.territory_draw, call.resources_draw)]
    /\ UNCHANGED <<store, now, creating, reply, sess>>

NextBattle == CallCalculateBattleResult

SpecBattle == InitBattle /\ [][NextBattle]_vars

\* unit tables of country 1, one row per unit type, next to the rows of a
\* country 2; country 3 has no rows
InfantryQuantities == {1, 62, 100}
TankQuantities == {0, 10}
ShipQuantities == {0, 5}
AircraftQuantities == {0, 5, 7}
TotalCasualties == {0, 1, 48, 91, 235, 1000}

UnitRow(country_id, unit_type, quantity) ==
    [country_id |-> country_id, unit_type |-> unit_type,
     quantity |-> quantity, technology_level |-> 1]

InitCasualties ==
    /\ NoStore
    /\ \E qi \in InfantryQuantities, qt \in TankQuantities,
          qs \in ShipQuantities, qa \in AircraftQuantities :
           military_units =
               << UnitRow(1, "infantry", qi), UnitRow(1, "tank", qt) >>
               \o InitialUnitRows(2)
               \o << UnitRow(1, "ship", qs), UnitRow(1, "aircraft", qa) >>
    /\ call \in [country_id : {1, 3}, total_casualties : TotalCasualties,
                 done : {FALSE}, out : {<<>>}]

\* one call of _apply_casualties; out keeps the table as it was
CallApplyCasualties ==
    /\ ~call.done
    /\ military_units' = ApplyCasualties(military_units, call.country_id,
                                         call.total_casualties)
    /\ call' = [call EXCEPT !.done = TRUE, !.out = military_units]
    /\ UNCHANGED <<countries, developments, battles, transaction_logs, now,
                   creating, reply, sess,
                   alliances, country_alliance, command_logs>>

NextCasualties == CallApplyCasualties

SpecCasualties == InitCasualties /\ [][NextCasualties]_vars

(***************************************************************************)
(* attack() as the commits it makes.  _apply_casualties commits at its end *)
(* (military_service.py:368), so one attack commits three times: the       *)
(* attacker's losses, the defender's losses, and the resource transfer     *)
(* with the Battle row.  Every caller has a session of its own.  A session *)
(* keeps the objects it loaded until it commits (expire_on_commit), and a  *)
(* query that returns a row it already holds does not refresh the object;  *)
(* a commit writes the attributes whose value the session changed.         *)
(***************************************************************************)
\* the attacks the callers make: <<attacker_id, defender_id>>
AttackPairs == {<<1, 2>>, <<2, 1>>}

\* the store after create_country for two users and build_army(1, "infantry",
\* 100)
AttacksCountries ==
    << [NewCountry(1, "Aria") EXCEPT
           !.resources = @ - unit_costs["infantry"] * 100],
       NewCountry(2, "Boreal") >>

AttacksUnits ==
    AddUnits(InitialUnitRows(1) \o InitialUnitRows(2), 1, "infantry", 100)

IdleSession ==
    [pc |-> "idle", attacker_id |-> 0, defender_id |-> 0,
     attacker_strength |-> 0, defender_strength |-> 0,
     c |-> <<>>, s |-> <<>>, loaded |-> <<>>]

InitAttacks ==
    /\ countries = AttacksCountries
    /\ military_units = AttacksUnits
    /\ developments = <<>>
    /\ battles = <<>>
    /\ transaction_logs =
           << [country_id |-> 1, transaction_type |-> "build_army",
               amount |-> 0 - unit_costs["infantry"] * 100] >>
    /\ alliances = {}
    /\ country_alliance = {}
    /\ command_logs = <<>>
    /\ now = 0
    /\ creating = {}
    /\ reply = Ok("build_army", unit_costs["infantry"] * 100)
    /\ sess = [s \in Sessions |-> IdleSession]
    /\ call = Idle

\* attack() from its first statement to the return of
\* _calculate_battle_result: the checks, the two strengths (which load the
\* unit rows of both countries into the session) and the resolution
AttackResolve(s, attacker_id, defender_id) ==
    /\ sess[s].pc = "idle"
    /\ IF AttackError(attacker_id, defender_id) # "none"
       THEN /\ reply' = Raise("attack", AttackError(attacker_id, defender_id))
            /\ sess' = [sess EXCEPT ![s].pc = "done"]
       ELSE /\ \E attacker_strength \in {StrengthOf(SelectRows(military_units, attacker_id))}, defender_strength \in {StrengthOf(SelectRows(military_units, defender_id))}, random_factor \in RandomFactors, base_casualty_rate \in BaseCasualtyRates :
                \E c \in {BattleCasualties(attacker_strength, defender_strength, random_factor, base_casualty_rate)} :
                    \E territory_draw \in TerritoryDraws, resources_draw \in ResourcesDraws :
                        sess' = [sess EXCEPT ![s] =
                            [pc |-> "attacker_casualties",
                             attacker_id |-> attacker_id,
                             defender_id |-> defender_id,
                             attacker_strength |-> attacker_strength,
                             defender_strength |-> defender_strength,
                             c |-> c,
                             s |-> BattleSpoils(c.result, countries[defender_id].resources, territory_draw, resources_draw),
                             loaded |-> military_units]]
            /\ UNCHANGED reply
    /\ UNCHANGED <<store, now, creating, call>>

\* the unit rows as the session sees them in its first _apply_casualties: the
\* rows it loaded when it computed the strengths, rows added since as they are
SeenUnits(loaded) ==
    TupFrom([i \in 1..Len(military_units) |->
                IF i <= Len(loaded) THEN loaded[i] ELSE military_units[i]],
            1, Len(military_units))

\* the commit of a session: the rows whose quantity it changed are written
WriteChanged(seen, after) ==
    TupFrom([i \in 1..Len(military_units) |->
                IF after[i].quantity # seen[i].quantity
                THEN after[i] ELSE military_units[i]],
            1, Len(military_units))

\* _apply_casualties(attacker_id, casualties_attacker) with its commit
ApplyAttackerCasualties(s) ==
    /\ sess[s].pc = "attacker_casualties"
    /\ \E seen \in {SeenUnits(sess[s].loaded)} :
           \E after \in {ApplyCasualties(seen, sess[s].attacker_id, sess[s].c.casualties_attacker)} :
               military_units' = WriteChanged(seen, after)
    /\ sess' = [sess EXCEPT ![s].pc = "defender_casualties",
                            ![s].loaded = <<>>]
    /\ UNCHANGED <<countries, developments, battles, transaction_logs, now,
                   creating, reply, call,
                   alliances, country_alliance, command_logs>>

\* _apply_casualties(defender_id, casualties_defender) with its commit; the
\* commit before it expired the objects of the session
ApplyDefenderCasualties(s) ==
    /\ sess[s].pc = "defender_casualties"
    /\ military_units' = ApplyCasualties(military_units, sess[s].defender_id, sess[s].c.casualties_defender)
    /\ sess' = [sess EXCEPT ![s].pc = "record"]
    /\ UNCHANGED <<countries, developments, battles, transaction_logs, now,
                   creating, reply, call,
                   alliances, country_alliance, command_logs>>

\* the resource transfer, the Battle row and the last commit of attack()
RecordBattle(s) ==
    /\ sess[s].pc = "record"
    /\ countries' = TransferResources(countries, sess[s].attacker_id, sess[s].defender_id, sess[s].c.result, sess[s].s.resources_captured)
    /\ battles' = Append(battles, BattleRow(sess[s].attacker_id, sess[s].defender_id, sess[s].attacker_strength, sess[s].defender_strength, sess[s].c, sess[s].s))
    /\ reply' = Ok("attack", Len(battles) + 1)
    /\ sess' = [sess EXCEPT ![s].pc = "done"]
    /\ UNCHANGED <<military_units, developments, transaction_logs, now,
                   creating, call,
                   alliances, country_alliance, command_logs>>

\* a statement of attack() after the first commit raises (the database
\* refuses a statement or a commit): the exception leaves attack(), which
\* has no handler, and what the session committed before stays
AttackFails(s) ==
    /\ sess[s].pc \in {"defender_casualties", "record"}
    /\ reply' = Raise("attack", "Exception")
    /\ sess' = [sess EXCEPT ![s].pc = "failed"]
    /\ UNCHANGED <<store, now, creating, call>>

NextAttacks ==
    \/ \E s \in Sessions, p \in AttackPairs : AttackResolve(s, p[1], p[2])
    \/ \E s \in Sessions : ApplyAttackerCasualties(s)
    \/ \E s \in Sessions : ApplyDefenderCasualties(s)
    \/ \E s \in Sessions : RecordBattle(s)
    \/ \E s \in Sessions : AttackFails(s)

SpecAttacks == InitAttacks /\ [][NextAttacks]_vars

\* attack() run alone on the store st = <<MilitaryUnit table, Country table>>
\* with the draws x: the store afterwards
AttackStore(st, p, x) ==
    LET attacker_strength == StrengthOf(SelectRows(st[1], p[1]))
        defender_strength == StrengthOf(SelectRows(st[1], p[2]))
        c == BattleCasualties(attacker_strength, defender_strength, x.random_factor, x.base_casualty_rate)
        s == BattleSpoils(c.result, st[2][p[2]].resources, 5, x.resources_draw)
    IN  IF attacker_strength <= 0 THEN st
        ELSE << ApplyCasualties(ApplyCasualties(st[1], p[1], c.casualties_attacker), p[2], c.casualties_defender),
                TransferResources(st[2], p[1], p[2], c.result, s.resources_captured) >>

AttackDraws ==
    [random_factor : RandomFactors, base_casualty_rate : BaseCasualtyRates,
     resources_draw : ResourcesDraws]

\* the stores two attacks can leave when the second starts after the first
\* has returned
SerialAttacks ==
    [p \in AttackPairs \X AttackPairs |->
        { AttackStore(AttackStore(<<AttacksUnits, AttacksCountries>>, p[1], x), p[2], y) : x \in AttackDraws, y \in AttackDraws }]

(***************************************************************************)
(* The life of developments: two countries start developments, the clock   *)
(* advances, the sweep completes what is due and callers ask for progress. *)
(***************************************************************************)
MaxStarted == 2

\* the times the clock takes, in seconds
DevelopmentTimes == {0, 25056, DaySeconds, DaySeconds + 1, 2 * DaySeconds}

\* options the callers ask for
StartedOptions ==
    { <<"infrastructure", "Road Network">>, <<"research", "Basic Research">> }

\* the store after create_country for two users
InitDevelopments ==
    /\ countries = << NewCountry(1, "Aria"), NewCountry(2, "Boreal") >>
    /\ military_units = InitialUnitRows(1) \o InitialUnitRows(2)
    /\ developments = <<>>
    /\ battles = <<>>
    /\ transaction_logs = <<>>
    /\ alliances = {}
    /\ country_alliance = {}
    /\ command_logs = <<>>
    /\ now = 0
    /\ creating = {}
    /\ reply = Ok("create_country", 2)
    /\ sess = Idle
    /\ call = Idle

\* a variant of the progress without the cap at 100
ProgressOfUncapped(d, t) ==
    IF d.status = "completed" THEN [progress |-> 100, time_left |-> 0]
    ELSE IF d.status = "cancelled" THEN [progress |-> 0, time_left |-> 0]
    ELSE [progress |->
              FTrunc(FMul(FDivInt(t - d.start_time, d.end_time - d.start_time), FromInt(100))),
          time_left |-> Max(0, d.end_time - t)]

\* progress and time_left_seconds as get_development_progress computes them
\* for the Development row d at time t
ProgressOf(d, t) ==
    IF d.status = "completed" THEN [progress |-> 100, time_left |-> 0]
    ELSE IF d.status = "cancelled" THEN [progress |-> 0, time_left |-> 0]
    ELSE [progress |->
              Min(100, FTrunc(FMul(FDivInt(t - d.start_time, d.end_time - d.start_time), FromInt(100)))),
          time_left |-> Max(0, d.end_time - t)]

\* DevelopmentService.get_development_progress
GetDevelopmentProgress(development_id) ==
    /\ IF development_id < 1 \/ development_id > Len(developments)
       THEN reply' = Raise("get_development_progress", "ValidationError")
       ELSE \E p \in {ProgressOf(developments[development_id], now)} :
                reply' = [op |-> "get_development_progress", error |-> "none",
                          value |-> development_id,
                          status |-> developments[development_id].status,
                          progress |-> p.progress,
                          time_left_seconds |-> p.time_left]
    /\ UNCHANGED <<store, now, creating, sess, call>>

\* the clock advances
TickDevelopments ==
    /\ \E t \in DevelopmentTimes : t > now /\ now' = t
    /\ UNCHANGED <<store, creating, reply, sess, call>>

NextDevelopments ==
    \/ \E c \in CountryIds, o \in StartedOptions :
           StartDevelopmentWithin(c, o[1], o[2], MaxStarted, MaxStarted)
    \/ Sweep
    \/ \E d \in 1..(MaxStarted + 1) : GetDevelopmentProgress(d)
    \/ TickDevelopments

SpecDevelopments == InitDevelopments /\ [][NextDevelopments]_vars

(***************************************************************************)
(* The status query after creations and purchases                          *)
(***************************************************************************)
\* military_info of get_country_status: the quantity of every unit type the
\* country has a row of (of the last row, should a type have several)
RECURSIVE MilitaryInfo(_, _)
MilitaryInfo(units, i) ==
    IF i > Len(units) THEN [t \in {} |-> 0]
    ELSE [t \in {units[j].unit_type : j \in i..Len(units)} |->
             IF t \in DOMAIN MilitaryInfo(units, i + 1)
             THEN MilitaryInfo(units, i + 1)[t] ELSE units[i].quantity]

\* CountryService.get_country_status
GetCountryStatus(country_id) ==
    /\ IF ~CountryExists(country_id)
       THEN reply' = Raise("get_country_status", "ValidationError")
       ELSE \E units \in {SelectRows(military_units, country_id)} :
                reply' = [op |-> "get_country_status", error |-> "none",
                          value |-> country_id,
                          gdp |-> countries[country_id].gdp,
                          military_power |-> countries[country_id].military_power,
                          resources |-> countries[country_id].resources,
                          units |-> MilitaryInfo(units, 1),
                          total_strength |->
                              SumSeq([i \in 1..Len(units) |->
                                  units[i].quantity * units[i].technology_level])]
    /\ UNCHANGED <<store, now, creating, sess, call>>

NextRoundTrip ==
    \/ \E u \in UserIds, n \in CountryNames, v \in BOOLEAN :
           CreateCountry(u, n, v)
    \/ \E c \in CountryIds, t \in UnitTypeStrings, q \in BuildQuantities :
           BuildArmy(c, t, q)
    \/ \E c \in CountryIds : GetCountryStatus(c)

SpecRoundTrip == Init /\ [][NextRoundTrip]_vars

(***************************************************************************)
(* Concurrent create_country calls, each in a session of its own.  The     *)
(* checks of the name and of the user read the committed rows; the insert  *)
(* of the Country row is committed later.  The table has a unique          *)
(* constraint on name (models.py:87) and none on user_id (models.py:88).   *)
(***************************************************************************)
IdleCreation == [pc |-> "idle", user_id |-> 0, name |-> "", country_id |-> 0]

InitCreations ==
    /\ countries = <<>>
    /\ military_units = <<>>
    /\ developments = <<>>
    /\ battles = <<>>
    /\ transaction_logs = <<>>
    /\ alliances = {}
    /\ country_alliance = {}
    /\ command_logs = <<>>
    /\ now = 0
    /\ creating = {}
    /\ reply = Ok("init", 0)
    /\ sess = [s \in Sessions |-> IdleCreation]
    /\ call = Idle

\* create_country up to the construction of the Country object: the two
\* queries and the conversion of the enums
CreateCheck(s, user_id, name, enums_valid) ==
    /\ sess[s].pc = "idle"
    /\ IF \E i \in 1..Len(countries) : countries[i].name = name
       THEN /\ reply' = Raise("create_country", "ValidationError")
            /\ sess' = [sess EXCEPT ![s].pc = "done"]
       ELSE IF \E i \in 1..Len(countries) : countries[i].user_id = user_id
       THEN /\ reply' = Raise("create_country", "ResourceError")
            /\ sess' = [sess EXCEPT ![s].pc = "done"]
       ELSE IF ~enums_valid
       THEN /\ reply' = Raise("create_country", "ValidationError")
            /\ sess' = [sess EXCEPT ![s].pc = "done"]
       ELSE /\ sess' = [sess EXCEPT ![s] = [pc |-> "checked", user_id |-> user_id, name |-> name, country_id |-> 0]]
            /\ UNCHANGED reply
    /\ UNCHANGED <<store, now, creating, call>>

\* db.add(country); db.commit(): the row is inserted unless the unique
\* constraint on name refuses it, which raises IntegrityError
CreateCommit(s) ==
    /\ sess[s].pc = "checked"
    /\ IF \E i \in 1..Len(countries) : countries[i].name = sess[s].name
       THEN /\ reply' = Raise("create_country", "IntegrityError")
            /\ sess' = [sess EXCEPT ![s].pc = "done"]
            /\ UNCHANGED <<store, creating>>
       ELSE /\ countries' = Append(countries, NewCountry(sess[s].user_id, sess[s].name))
            /\ creating' = creating \cup {Len(countries) + 1}
            /\ sess' = [sess EXCEPT ![s].pc = "row", ![s].country_id = Len(countries) + 1]
            /\ UNCHANGED <<military_units, developments, battles, transaction_logs, reply>>
    /\ UNCHANGED <<now, call,
                   alliances, country_alliance, command_logs>>

\* _create_initial_military_units with its commit, and the return
CreateUnits(s) ==
    /\ sess[s].pc = "row"
    /\ military_units' = military_units \o InitialUnitRows(sess[s].country_id)
    /\ creating' = creating \ {sess[s].country_id}
    /\ reply' = Ok("create_country", sess[s].country_id)
    /\ sess' = [sess EXCEPT ![s].pc = "done"]
    /\ UNCHANGED <<countries, developments, battles, transaction_logs, now, call,
                   alliances, country_alliance, command_logs>>

\* the caller of a finished call makes another call
CreateAgain(s) ==
    /\ sess[s].pc = "done"
    /\ Len(countries) < MaxUsers
    /\ sess' = [sess EXCEPT ![s] = IdleCreation]
    /\ UNCHANGED <<store, now, creating, reply, call>>

NextCreations ==
    \/ \E s \in Sessions, u \in UserIds, n \in CountryNames, v \in BOOLEAN :
           CreateCheck(s, u, n, v)
    \/ \E s \in Sessions : CreateCommit(s)
    \/ \E s \in Sessions : CreateUnits(s)
    \/ \E s \in Sessions : CreateAgain(s)

SpecCreations == InitCreations /\ [][NextCreations]_vars

(***************************************************************************)
(* Alliances (services/alliance_service.py).  An Alliance row is a record  *)
(* with its id; the store gives a new row the id max(id) + 1 (the rowid of *)
(* SQLite, config.py:13).  country_alliance is the association table of    *)
(* Country.alliances and Alliance.members (models.py:14-19, 118, 197): the *)
(* session inserts a row when an object is appended to either collection,  *)
(* deletes it when the object is removed, and deletes the rows of an       *)
(* Alliance with the Alliance when it is deleted.                          *)
(***************************************************************************)
MaxAlliances == 2
MaxMembers == 3

AllianceNames == {"Pact", "League"}
MemberNames == <<"Aria", "Boreal", "Cyrene", "Delos", "Elis">>

\* ids the callers pass: the rows that can exist and one that cannot
AllianceIds == 1..(MaxAlliances + 1)
MemberIds == 1..(MaxMembers + 1)

\* no create_alliance call is between its two commits
NoFounding == [pc |-> "idle", founder_id |-> 0, alliance_id |-> 0]

\* the store after create_country for MaxMembers users
InitAlliances ==
    /\ countries = TupFrom([i \in 1..MaxMembers |-> NewCountry(i, MemberNames[i])], 1, MaxMembers)
    /\ military_units = TupFrom(
           [k \in 1..(MaxMembers * Len(initial_units)) |->
               InitialUnitRows(((k - 1) \div Len(initial_units)) + 1)[((k - 1) % Len(initial_units)) + 1]],
           1, MaxMembers * Len(initial_units))
    /\ developments = <<>>
    /\ battles = <<>>
    /\ transaction_logs = <<>>
    /\ alliances = {}
    /\ country_alliance = {}
    /\ command_logs = <<>>
    /\ now = 0
    /\ creating = {}
    /\ reply = Ok("create_country", MaxMembers)
    /\ sess = NoFounding
    /\ call = Idle

\* AllianceService.get_alliance_by_id: the rows with that id, none or one
AllianceById(alliance_id) == {a \in alliances : a.id = alliance_id}

\* Alliance.members, as ids of countries
Members(alliance_id) == {c \in MemberIds : <<c, alliance_id>> \in country_alliance}

\* the id the store gives the next Alliance row
NextAllianceId ==
    IF alliances = {} THEN 1
    ELSE 1 + (CHOOSE m \in {a.id : a \in alliances} : \A a \in alliances : a.id <= m)

\* the error join_alliance raises, "none" when it adds the country
JoinError(country_id, alliance_id) ==
    IF ~CountryExists(country_id) THEN "ValidationError"
    ELSE IF AllianceById(alliance_id) = {} THEN "ValidationError"
    ELSE IF country_id \in Members(alliance_id) THEN "ValidationError"
    ELSE "none"

\* AllianceService.join_alliance
JoinAlliance(country_id, alliance_id) ==
    /\ IF JoinError(country_id, alliance_id) # "none"
       THEN /\ reply' = Raise("join_alliance", JoinError(country_id, alliance_id))
            /\ UNCHANGED country_alliance
       ELSE /\ country_alliance' = country_alliance \cup {<<country_id, alliance_id>>}
            /\ reply' = Ok("join_alliance", alliance_id)
    /\ UNCHANGED <<countries, military_units, developments, battles, transaction_logs,
                   alliances, command_logs, now, creating, sess, call>>

\* a variant of leave_alliance without the check of the founder
LeaveAllianceAnyMember(country_id, alliance_id) ==
    /\ IF ~CountryExists(country_id)
       THEN /\ reply' = Raise("leave_alliance", "ValidationError")
            /\ UNCHANGED country_alliance
       ELSE IF AllianceById(alliance_id) = {}
       THEN /\ reply' = Raise("leave_alliance", "ValidationError")
            /\ UNCHANGED country_alliance
       ELSE IF country_id \notin Members(alliance_id)
       THEN /\ reply' = Raise("leave_alliance", "ValidationError")
            /\ UNCHANGED country_alliance
       ELSE /\ country_alliance' = country_alliance \ {<<country_id, alliance_id>>}
            /\ reply' = Ok("leave_alliance", alliance_id)
    /\ UNCHANGED <<countries, military_units, developments, battles, transaction_logs,
                   alliances, command_logs, now, creating, sess, call>>

\* AllianceService.leave_alliance
LeaveAlliance(country_id, alliance_id) ==
    /\ IF ~CountryExists(country_id)
       THEN /\ reply' = Raise("leave_alliance", "ValidationError")
            /\ UNCHANGED country_alliance
       ELSE IF AllianceById(alliance_id) = {}
       THEN /\ reply' = Raise("leave_alliance", "ValidationError")
            /\ UNCHANGED country_alliance
       ELSE IF country_id \notin Members(alliance_id)
       THEN /\ reply' = Raise("leave_alliance", "ValidationError")
            /\ UNCHANGED country_alliance
       ELSE IF \E a \in AllianceById(alliance_id) : a.founder_id = country_id
       THEN /\ reply' = Raise("leave_alliance", "PermissionError")
            /\ UNCHANGED country_alliance
       ELSE /\ country_alliance' = country_alliance \ {<<country_id, alliance_id>>}
            /\ reply' = Ok("leave_alliance", alliance_id)
    /\ UNCHANGED <<countries, military_units, developments, battles, transaction_logs,
                   alliances, command_logs, now, creating, sess, call>>

\* the orders in which the list alliance.members can hold the members
MemberOrders(alliance_id) ==
    {o \in [1..Cardinality(Members(alliance_id)) -> Members(alliance_id)] :
        \A i \in DOMAIN o : \A j \in DOMAIN o : i # j => o[i] # o[j]}

\* the members the loop of disband_alliance visits.  It iterates over
\* alliance.members while country.alliances.remove(alliance) takes the
\* country out of that same list (back_populates): after the removal at
\* position i the next member stands at position i, and the loop goes on
\* with position i + 1.
RECURSIVE LoopVisited(_, _)
LoopVisited(members, i) ==
    IF i > Len(members) THEN {}
    ELSE {members[i]}
         \cup LoopVisited(SubSeq(members, 1, i - 1) \o SubSeq(members, i + 1, Len(members)), i + 1)

\* country_alliance after the loop of disband_alliance alone: the rows of
\* the members it visited are deleted
RowsAfterLoopOnly(alliance_id, order) ==
    {r \in country_alliance :
        r[2] = alliance_id => r[1] \notin LoopVisited(order, 1)}

\* country_alliance after disband_alliance: the loop, and db.delete(alliance),
\* which deletes the rows of the members still in alliance.members
RowsAfterDisband(alliance_id, order) ==
    {r \in RowsAfterLoopOnly(alliance_id, order) : r[2] # alliance_id}

\* AllianceService.disband_alliance
DisbandAlliance(country_id, alliance_id) ==
    /\ IF AllianceById(alliance_id) = {}
       THEN /\ reply' = Raise("disband_alliance", "ValidationError")
            /\ UNCHANGED <<alliances, country_alliance>>
       ELSE IF \E a \in AllianceById(alliance_id) : a.founder_id # country_id
       THEN /\ reply' = Raise("disband_alliance", "PermissionError")
            /\ UNCHANGED <<alliances, country_alliance>>
       ELSE /\ \E order \in MemberOrders(alliance_id) :
                   country_alliance' = RowsAfterDisband(alliance_id, order)
            /\ alliances' = alliances \ AllianceById(alliance_id)
            /\ reply' = [op |-> "disband_alliance", error |-> "none", value |-> alliance_id,
                         members |-> Cardinality(Members(alliance_id))]
    /\ UNCHANGED <<countries, military_units, developments, battles, transaction_logs,
                   command_logs, now, creating, sess, call>>

\* the Alliance row create_alliance adds
NewAlliance(founder_id, name) ==
    [id |-> NextAllianceId, name |-> name, founder_id |-> founder_id]

\* the error of the checks of create_alliance, "none" when they pass
CreateAllianceError(founder_id, name) ==
    IF \E a \in alliances : a.name = name THEN "ValidationError"
    ELSE IF ~CountryExists(founder_id) THEN "ValidationError"
    ELSE "none"

\* AllianceService.create_alliance, with its call of join_alliance
CreateAlliance(founder_id, name) ==
    /\ IF CreateAllianceError(founder_id, name) # "none"
       THEN /\ reply' = Raise("create_alliance", CreateAllianceError(founder_id, name))
            /\ UNCHANGED <<alliances, country_alliance>>
       ELSE /\ NextAllianceId <= MaxAlliances
            /\ alliances' = alliances \cup {NewAlliance(founder_id, name)}
            /\ IF founder_id \in Members(NextAllianceId)
               THEN /\ reply' = Raise("create_alliance", "ValidationError")
                    /\ UNCHANGED country_alliance
               ELSE /\ country_alliance' = country_alliance \cup {<<founder_id, NextAllianceId>>}
                    /\ reply' = Ok("create_alliance", NextAllianceId)
    /\ UNCHANGED <<countries, military_units, developments, battles, transaction_logs,
                   command_logs, now, creating, sess, call>>

NextAlliances ==
    \/ \E c \in MemberIds, n \in AllianceNames : CreateAlliance(c, n)
    \/ \E c \in MemberIds, a \in AllianceIds : JoinAlliance(c, a)
    \/ \E c \in MemberIds, a \in AllianceIds : LeaveAlliance(c, a)
    \/ \E c \in MemberIds, a \in AllianceIds : DisbandAlliance(c, a)

SpecAlliances == InitAlliances /\ [][NextAlliances]_vars

(***************************************************************************)
(* create_alliance as its two commits: the Alliance row (line 94), then    *)
(* the membership of the founder in join_alliance (line 140), with the     *)
(* calls of other callers between them.                                    *)
(***************************************************************************)
\* AllianceService.create_alliance up to its first commit
FoundAlliance(founder_id, name) ==
    /\ sess.pc = "idle"
    /\ IF CreateAllianceError(founder_id, name) # "none"
       THEN /\ reply' = Raise("create_alliance", CreateAllianceError(founder_id, name))
            /\ UNCHANGED <<alliances, sess>>
       ELSE /\ NextAllianceId <= MaxAlliances
            /\ alliances' = alliances \cup {NewAlliance(founder_id, name)}
            /\ sess' = [pc |-> "founding", founder_id |-> founder_id, alliance_id |-> NextAllianceId]
            /\ UNCHANGED reply
    /\ UNCHANGED <<countries, military_units, developments, battles, transaction_logs,
                   country_alliance, command_logs, now, creating, call>>

\* the call of join_alliance in create_alliance, and its return
FounderJoins ==
    /\ sess.pc = "founding"
    /\ IF JoinError(sess.founder_id, sess.alliance_id) # "none"
       THEN /\ reply' = Raise("create_alliance", JoinError(sess.founder_id, sess.alliance_id))
            /\ UNCHANGED country_alliance
       ELSE /\ country_alliance' = country_alliance \cup {<<sess.founder_id, sess.alliance_id>>}
            /\ reply' = Ok("create_alliance", sess.alliance_id)
    /\ sess' = NoFounding
    /\ UNCHANGED <<countries, military_units, developments, battles, transaction_logs,
                   alliances, command_logs, now, creating, call>>

NextAllianceCreation ==
    \/ \E c \in MemberIds, n \in AllianceNames : FoundAlliance(c, n)
    \/ FounderJoins
    \/ \E c \in MemberIds, a \in AllianceIds : JoinAlliance(c, a)
    \/ \E c \in MemberIds, a \in AllianceIds : LeaveAlliance(c, a)
    \/ \E c \in MemberIds, a \in AllianceIds : DisbandAlliance(c, a)

SpecAllianceCreation == InitAlliances /\ [][NextAllianceCreation]_vars

(***************************************************************************)
(* Ranks (services/ranking_service.py), asked for while developments of    *)
(* two countries complete and change their gdp and military_power.         *)
(***************************************************************************)
\* a variant of the count that includes the rows with an equal value
RECURSIVE CountAtLeast(_, _, _)
CountAtLeast(rows, metric, value) ==
    IF Len(rows) = 0 THEN 0
    ELSE (IF rows[1][metric] >= value THEN 1 ELSE 0) + CountAtLeast(Tail(rows), metric, value)

\* db.query(Country).filter(Country.<metric> > value).count()
RECURSIVE CountGreater(_, _, _)
CountGreater(rows, metric, value) ==
    IF Len(rows) = 0 THEN 0
    ELSE (IF rows[1][metric] > value THEN 1 ELSE 0) + CountGreater(Tail(rows), metric, value)

\* RankingService.get_country_rank; None is written 0
GetCountryRank(country_id) ==
    /\ IF ~CountryExists(country_id)
       THEN reply' = [op |-> "get_country_rank", error |-> "none", value |-> country_id,
                      military_rank |-> 0, economy_rank |-> 0, population_rank |-> 0,
                      total_countries |-> 0]
       ELSE reply' = [op |-> "get_country_rank", error |-> "none", value |-> country_id,
                      military_rank |->
                          CountGreater(countries, "military_power", countries[country_id].military_power) + 1,
                      economy_rank |->
                          CountGreater(countries, "gdp", countries[country_id].gdp) + 1,
                      population_rank |->
                          CountGreater(countries, "population", countries[country_id].population) + 1,
                      total_countries |-> Len(countries)]
    /\ UNCHANGED <<store, now, creating, sess, call>>

NextRanking ==
    \/ \E c \in CountryIds, o \in StartedOptions :
           StartDevelopmentWithin(c, o[1], o[2], MaxStarted, MaxStarted)
    \/ Sweep
    \/ TickDevelopments
    \/ \E c \in 1..(MaxUsers + 1) : GetCountryRank(c)

SpecRanking == InitDevelopments /\ [][NextRanking]_vars

(***************************************************************************)
(* The rate limiter (utils/rate_limiter.py) over the CommandLog table.     *)
(* The users 1 and 2 are registered (UserService.get_or_create_user),      *)
(* telegram_id and id alike, user 3 is not; the two reads of               *)
(* datetime.utcnow() in one call give the same second; True is written 1.  *)
(***************************************************************************)
MaxCommandLogs == 5

\* RateLimiter.limits: command |-> <<max_calls, period_seconds>>
limits ==
    [create_country |-> <<1, 86400>>, attack |-> <<5, 3600>>, build_army |-> <<10, 3600>>,
     development |-> <<5, 3600>>, default |-> <<30, 60>>]

\* self.limits.get(command, self.limits["default"])
LimitOf(command) ==
    IF command \in DOMAIN limits THEN limits[command] ELSE limits["default"]

RegisteredUsers == {1, 2}
RateUsers == {1, 2, 3}
RateCommands == {"create_country", "attack"}
RateTimes == {0, 3600, 3601, DaySeconds, DaySeconds + 1}

InitRateLimiter ==
    /\ countries = <<>>
    /\ military_units = <<>>
    /\ developments = <<>>
    /\ battles = <<>>
    /\ transaction_logs = <<>>
    /\ alliances = {}
    /\ country_alliance = {}
    /\ command_logs = <<>>
    /\ now = 0
    /\ creating = {}
    /\ reply = Ok("get_or_create_user", 2)
    /\ sess = Idle
    /\ call = Idle

\* a variant of the count that leaves out the rows stamped at since
RECURSIVE LogsAfter(_, _, _, _)
LogsAfter(logs, user_id, command, since) ==
    IF Len(logs) = 0 THEN 0
    ELSE (IF /\ logs[1].user_id = user_id
             /\ logs[1].command = command
             /\ logs[1].timestamp > since THEN 1 ELSE 0)
         + LogsAfter(Tail(logs), user_id, command, since)

\* the count of the CommandLog rows of the user and the command with
\* timestamp >= since
RECURSIVE LogsSince(_, _, _, _)
LogsSince(logs, user_id, command, since) ==
    IF Len(logs) = 0 THEN 0
    ELSE (IF /\ logs[1].user_id = user_id
             /\ logs[1].command = command
             /\ logs[1].timestamp >= since THEN 1 ELSE 0)
         + LogsSince(Tail(logs), user_id, command, since)

\* RateLimiter.check_rate_limit
CheckRateLimit(user_id, command) ==
    /\ IF user_id \notin RegisteredUsers
       THEN /\ reply' = [op |-> "check_rate_limit", error |-> "none", value |-> 1, at |-> now]
            /\ UNCHANGED command_logs
       ELSE IF LogsSince(command_logs, user_id, command, now - LimitOf(command)[2]) >= LimitOf(command)[1]
       THEN /\ reply' = [op |-> "check_rate_limit", error |-> "RateLimitError", value |-> 1, at |-> now]
            /\ UNCHANGED command_logs
       ELSE /\ Len(command_logs) < MaxCommandLogs
            /\ command_logs' = Append(command_logs,
                   [user_id |-> user_id, command |-> command, timestamp |-> now])
            /\ reply' = [op |-> "check_rate_limit", error |-> "none", value |-> 1, at |-> now]
    /\ UNCHANGED <<countries, military_units, developments, battles, transaction_logs,
                   alliances, country_alliance, now, creating, sess, call>>

\* the clock advances
TickRateLimiter ==
    /\ \E t \in RateTimes : t > now /\ now' = t
    /\ UNCHANGED <<store, creating, reply, sess, call>>

NextRateLimiter ==
    \/ \E u \in RateUsers, c \in RateCommands : CheckRateLimit(u, c)
    \/ TickRateLimiter

SpecRateLimiter == InitRateLimiter /\ [][NextRateLimiter]_vars

(***************************************************************************)
(* Developments of a country whose military_power is near its bound.  The  *)
(* country has been through ResearchRounds rounds of update_resources(600),*)
(* start_development("research", "Advanced Research Center") and, five     *)
(* days later, the sweep: military_power has grown from 10 to 88.          *)
(***************************************************************************)
ResearchRounds == 23

AdvancedResearchCenter == development_options["research"][3]

\* the Country row after n of the rounds
RECURSIVE CountryAfterRounds(_, _)
CountryAfterRounds(country, n) ==
    IF n = 0 THEN country
    ELSE CountryAfterRounds(
             ApplyBonuses(country, NewDevelopment(1, "research", AdvancedResearchCenter, 0)),
             n - 1)

\* the time of the n-th sweep
RoundEnd(n) == n * AdvancedResearchCenter.time_days * DaySeconds

BoundsTimes == {RoundEnd(ResearchRounds) + d * DaySeconds : d \in {0, 2, 5, 10}}

BoundsOptions ==
    { <<"research", "Basic Research">>, <<"research", "Advanced Research Center">> }

InitBounds ==
    /\ countries = << CountryAfterRounds(NewCountry(1, "Aria"), ResearchRounds) >>
    /\ military_units = InitialUnitRows(1)
    /\ developments = TupFrom(
           [k \in 1..ResearchRounds |->
               [NewDevelopment(1, "research", AdvancedResearchCenter, RoundEnd(k - 1))
                   EXCEPT !.status = "completed"]], 1, ResearchRounds)
    /\ battles = <<>>
    /\ transaction_logs = TupFrom(
           [k \in 1..(2 * ResearchRounds) |->
               IF k % 2 = 1
               THEN [country_id |-> 1, transaction_type |-> "resources",
                     amount |-> AdvancedResearchCenter.cost]
               ELSE [country_id |-> 1, transaction_type |-> "development",
                     amount |-> 0 - AdvancedResearchCenter.cost]], 1, 2 * ResearchRounds)
    /\ alliances = {}
    /\ country_alliance = {}
    /\ command_logs = <<>>
    /\ now = RoundEnd(ResearchRounds)
    /\ creating = {}
    /\ reply = [op |-> "sweep", error |-> "none", value |-> <<ResearchRounds>>,
                at |-> RoundEnd(ResearchRounds), repeated |-> FALSE, previous |-> <<>>]
    /\ sess = Idle
    /\ call = Idle

\* the clock advances
TickBounds ==
    /\ \E t \in BoundsTimes : t > now /\ now' = t
    /\ UNCHANGED <<store, creating, reply, sess, call>>

NextBounds ==
    \/ \E o \in BoundsOptions :
           StartDevelopmentWithin(1, o[1], o[2], 2 * ResearchRounds + MaxStarted, ResearchRounds + MaxStarted)
    \/ Sweep
    \/ TickBounds

SpecBounds == InitBounds /\ [][NextBounds]_vars

(***************************************************************************)
(* The sweep with the float arithmetic of ApplyBonuses read from tables    *)
(* over the values a country of SpecBounds takes.  It is the action whose  *)
(* enabledness the fairness condition evaluates; SweepIsTabulated states   *)
(* that it is the sweep.                                                   *)
(***************************************************************************)
BoundsBonuses(field) ==
    {development_options["research"][k][field] : k \in 1..Len(development_options["research"])}

BoundsGdps ==
    {CountryAfterRounds(NewCountry(1, "Aria"), n).gdp : n \in 0..(ResearchRounds + MaxStarted)}

BoundsResources == 0..CountryAfterRounds(NewCountry(1, "Aria"), ResearchRounds).resources

GdpAfter ==
    [g \in BoundsGdps, b \in BoundsBonuses("infrastructure_bonus") |->
        FTrunc(FMul(FromInt(g), FAdd(FromInt(1), Lit(b))))]

PowerAfter ==
    [p \in MIN_MILITARY_POWER..MAX_MILITARY_POWER, b \in BoundsBonuses("research_bonus") |->
        FTrunc(FMul(FromInt(p), FAdd(FromInt(1), Lit(b))))]

TradeGain ==
    [r \in BoundsResources, b \in BoundsBonuses("trade_bonus") |->
        FTrunc(FMul(FromInt(r), Lit(b)))]

ApplyBonusesTabulated(country, development) ==
    [country EXCEPT
        !.gdp = GdpAfter[@, development.infrastructure_bonus],
        !.military_power = PowerAfter[@, development.research_bonus],
        !.resources = @ + TradeGain[@, development.trade_bonus]]

RECURSIVE CompleteAllTabulated(_, _, _, _)
CompleteAllTabulated(cs, devs, ids, i) ==
    IF i > Len(ids) THEN <<cs, devs>>
    ELSE LET d   == devs[ids[i]]
             cid == d.country_id
         IN  CompleteAllTabulated(
                 IF cid >= 1 /\ cid <= Len(cs)
                 THEN [cs EXCEPT ![cid] = ApplyBonusesTabulated(@, d)] ELSE cs,
                 [devs EXCEPT ![ids[i]].status = "completed"],
                 ids, i + 1)

SweepTabulated ==
    /\ \E completed \in {DueDevelopments(developments, now)} :
           \E after \in {CompleteAllTabulated(countries, developments, completed, 1)} :
               IF \A i \in 1..Len(after[1]) : CheckConstraints(after[1][i])
               THEN /\ countries' = after[1]
                    /\ developments' = after[2]
                    /\ reply' = SweepReply(completed)
               ELSE /\ UNCHANGED <<countries, developments>>
                    /\ reply' = [SweepReply(<<>>) EXCEPT !.error = "IntegrityError"]
    /\ UNCHANGED <<military_units, battles, transaction_logs, now, creating,
                   sess, call,
                   alliances, country_alliance, command_logs>>

\* a step is a step of the sweep exactly when it is one of the tabulated sweep
SweepIsTabulated == [][Sweep <=> SweepTabulated]_vars

\* the sweep is called again and again
SpecBoundsFair == InitBounds /\ [][NextBounds]_vars /\ WF_vars(SweepTabulated)

(***************************************************************************)
(* Properties                                                              *)
(***************************************************************************)

\* C1: a sweep that follows a sweep selects none of the developments the
\* first one completed; when the second is called right after the first, it
\* selects nothing and leaves gdp, military_power and resources of every
\* country as they were.
C1_SecondSweepAppliesNothing ==
    [][(reply.op = "sweep" /\ Sweep) =>
          /\ \A i \in 1..Len(reply.value) :
                 \A j \in 1..Len(reply'.value) :
                     reply.value[i] # reply'.value[j]
          /\ (reply.at = now) =>
                 (Len(reply'.value) = 0 /\ countries' = countries)]_vars

\* a sweep that completed a development, and right after it a second sweep
C1_SweptTwice ==
    /\ reply.op = "sweep"
    /\ reply.repeated
    /\ Len(reply.previous) > 0
    /\ Len(reply.value) = 0

\* C2: when two sessions have both run the sweep over the due development,
\* the country holds the bonuses of the development applied once to what it
\* held before.
C2_BonusesAppliedOnce ==
    (\A s \in Sessions : sess[s].pc = "done") =>
        countries[1] =
            ApplyBonuses([NewCountry(1, "Aria") EXCEPT
                             !.resources = @ - developments[1].resource_cost],
                         developments[1])

\* C3: the resources of every country are >= 0 after every committed call.
C3_ResourcesNeverNegative ==
    \A i \in 1..Len(countries) : countries[i].resources >= 0

\* update_resources has taken the whole balance of a country
C3_BalanceSpent ==
    /\ reply = Ok("update_resources", 0)
    /\ \E i \in 1..Len(countries) : countries[i].resources = 0

\* C4: _apply_casualties with total_casualties >= 0 leaves every quantity
\* >= 0, takes from no row more than it held and from no row of another
\* country, and takes no more than total_casualties units in all.
C4_CasualtiesWithinBounds ==
    call.done =>
        /\ Len(military_units) = Len(call.out)
        /\ \A i \in 1..Len(call.out) :
               /\ military_units[i].quantity >= 0
               /\ military_units[i].quantity <= call.out[i].quantity
               /\ call.out[i].country_id # call.country_id =>
                      military_units[i] = call.out[i]
        /\ SumSeq([i \in 1..Len(call.out) |->
                      call.out[i].quantity - military_units[i].quantity])
               <= call.total_casualties

\* casualties that emptied one row and left units in another
C4_RowEmptied ==
    /\ call.done
    /\ \E i \in 1..Len(call.out) :
           call.out[i].quantity > 0 /\ military_units[i].quantity = 0
    /\ \E i \in 1..Len(call.out) :
           /\ military_units[i].country_id = call.country_id
           /\ military_units[i].quantity > 0
           /\ military_units[i].quantity < call.out[i].quantity

\* C5: an attack of a country on itself, or by a country whose strength is
\* zero, raises an error, adds no Battle row and leaves the unit quantities
\* and the resources as they were.
C5_RejectedAttackChangesNothing ==
    [][\A a \in CountryIds : \A d \in CountryIds :
           ( /\ \/ a = d
                \/ /\ CountryExists(a)
                   /\ StrengthOf(SelectRows(military_units, a)) = 0
             /\ Attack(a, d) ) =>
               /\ reply'.error # "none"
               /\ battles' = battles
               /\ military_units' = military_units
               /\ countries' = countries]_vars

\* a country without units, between the two commits of create_country, has
\* attacked and was refused
C5_NoUnitsAttackRefused ==
    /\ reply = Raise("attack", "ResourceError")
    /\ creating # {}

\* C6: the outcome is a victory exactly when attacker_strength /
\* max(defender_strength, 1) times the multiplier is above 1.2, a defeat
\* exactly when it is below 0.8, and a draw otherwise.
C6_OutcomeFollowsRatio ==
    call.done =>
        LET a == call.attacker_strength
            d == Max(call.defender_strength, 1)
            m == call.random_factor
        IN  call.out.result =
                IF a * m > 120 * d THEN "victory"
                ELSE IF a * m < 80 * d THEN "defeat"
                ELSE "draw"

\* C7, as the specification states it: with equal positive strengths the
\* unluckiest multiplier, 0.8, makes the attacker lose.
C7_EqualStrengthsCanLose ==
    ( /\ call.done
      /\ call.attacker_strength = call.defender_strength
      /\ call.random_factor = 80 ) =>
        call.out.result = "defeat"

\* C7, amended: with equal positive strengths the outcome is a draw whatever
\* the multiplier.
C7_EqualStrengthsDraw ==
    ( /\ call.done
      /\ call.attacker_strength = call.defender_strength ) =>
        call.out.result = "draw"

\* equal strengths resolved with the multiplier 0.8
C7_EqualStrengthsUnluckyRoll ==
    /\ call.done
    /\ call.attacker_strength = call.defender_strength
    /\ call.attacker_strength > 0
    /\ call.random_factor = 80
    /\ call.out.result = "draw"

\* C8: the casualties of a side are floor(strength * rate), the rate being
\* base * 0.7 for the winner, base * 1.3 for the loser and base on a draw;
\* 1000 against 500 with multiplier 1.0 and base 0.2 is a victory with 140
\* and 130 casualties.
C8_CasualtiesAreFloorOfRate ==
    call.done =>
        LET r == call.out.result
            winner == call.base_casualty_rate * 70
            loser  == call.base_casualty_rate * 130
            even   == call.base_casualty_rate * 100
        IN  /\ call.out.casualties_attacker =
                   (call.attacker_strength *
                       (IF r = "victory" THEN winner
                        ELSE IF r = "defeat" THEN loser ELSE even)) \div 10000
            /\ call.out.casualties_defender =
                   (call.defender_strength *
                       (IF r = "victory" THEN loser
                        ELSE IF r = "defeat" THEN winner ELSE even)) \div 10000

\* C9: an attack changes resources only when it ends in a victory: the
\* attacker then gains what the defender loses, at most a fifth of what the
\* defender held; otherwise the resources stay and the Battle row holds no
\* territory and no captured resources.
C9_ResourcesMoveOnlyOnVictory ==
    [][/\ (reply'.op = "attack" /\ reply'.error # "none") =>
              countries' = countries
       /\ (reply'.op = "attack" /\ reply'.error = "none" /\ reply' # reply) =>
              LET b == battles'[Len(battles')]
              IN  IF b.result = "victory"
                  THEN /\ b.resources_captured >= 0
                       /\ 5 * b.resources_captured
                              <= countries[b.defender_id].resources
                       /\ countries' = [countries EXCEPT
                              ![b.attacker_id].resources =
                                  @ + b.resources_captured,
                              ![b.defender_id].resources =
                                  @ - b.resources_captured]
                  ELSE /\ countries' = countries
                       /\ b.territory_gained = 0
                       /\ b.resources_captured = 0]_vars

\* a victory that captured resources
C9_ResourcesCaptured ==
    /\ reply.op = "attack"
    /\ reply.error = "none"
    /\ battles[reply.value].result = "victory"
    /\ battles[reply.value].resources_captured > 0

\* C10: an attack that succeeds adds one Battle row, which holds the
\* strengths of the two countries as they were before the casualties; no
\* call removes or changes a Battle row.
C10_BattleRecordedOnceAndKept ==
    [][/\ Len(battles') >= Len(battles)
       /\ \A i \in 1..Len(battles) : battles'[i] = battles[i]
       /\ IF reply'.op = "attack" /\ reply'.error = "none" /\ reply' # reply
          THEN /\ Len(battles') = Len(battles) + 1
               /\ LET b == battles'[Len(battles')]
                  IN  /\ b.attacker_strength =
                             StrengthOf(SelectRows(military_units,
                                                   b.attacker_id))
                      /\ b.defender_strength =
                             StrengthOf(SelectRows(military_units,
                                                   b.defender_id))
          ELSE Len(battles') = Len(battles)]_vars

\* a purchase of units after a battle with casualties
C10_CallAfterBattle ==
    /\ Len(battles) > 0
    /\ battles[1].casualties_attacker > 0
    /\ reply.op = "build_army"
    /\ reply.error = "none"

\* C11: when an attack fails after its resolution, the committed store shows
\* no unit loss of either country.
C11_FailedAttackLosesNoUnits ==
    \A s \in Sessions :
        ( /\ sess[s].pc = "failed"
          /\ \A t \in Sessions \ {s} : sess[t].pc = "idle" ) =>
            military_units = AttacksUnits

\* C12: when two attacks that ran at the same time have both returned, the
\* unit quantities and the resources are those of the two attacks run one
\* after the other in one of the two orders.
C12_AttacksSerializable ==
    ( /\ sess[1].pc = "done" /\ sess[2].pc = "done"
      /\ \A t \in Sessions \ {1, 2} : sess[t].pc = "idle"
      /\ Len(battles) = 2 ) =>
        LET p1 == <<battles[1].attacker_id, battles[1].defender_id>>
            p2 == <<battles[2].attacker_id, battles[2].defender_id>>
        IN  <<military_units, countries>>
                \in SerialAttacks[<<p1, p2>>] \cup SerialAttacks[<<p2, p1>>]

C14_FloorOfHundredths(x, b) == (x \div 100) * b + ((x % 100) * b) \div 100

\* the Country table after the bonuses of the developments ids[i], ids[i+1],
\* ... in exact arithmetic
RECURSIVE C14_ExactBonuses(_, _, _, _)
C14_ExactBonuses(cs, devs, ids, i) ==
    IF i > Len(ids) THEN cs
    ELSE LET d == devs[ids[i]]
         IN  C14_ExactBonuses(
                 [cs EXCEPT ![d.country_id] =
                     [@ EXCEPT
                         !.gdp = @ + C14_FloorOfHundredths(@, d.infrastructure_bonus),
                         !.military_power = @ + C14_FloorOfHundredths(@, d.research_bonus),
                         !.resources = @ + C14_FloorOfHundredths(@, d.trade_bonus)]],
                 devs, ids, i + 1)

\* C14: the step of a sweep that completes developments sets their status to
\* COMPLETED and, in the same step, takes the gdp of the owner to
\* floor(gdp * (1 + infrastructure_bonus)), its military_power to
\* floor(military_power * (1 + research_bonus)) and adds
\* floor(resources * trade_bonus) to its resources.
C14_SweepAppliesBonuses ==
    [][(reply'.op = "sweep" /\ Sweep) =>
          /\ \A k \in 1..Len(reply'.value) :
                 /\ developments[reply'.value[k]].status = "in_progress"
                 /\ developments'[reply'.value[k]].status = "completed"
          /\ countries' = C14_ExactBonuses(countries, developments, reply'.value, 1)]_vars

\* the scenario: a development of cost 200 and one day, started at 0, swept
\* at one day and one second; the gdp of its country has grown by 5 percent
C14_RoadNetworkCompleted ==
    /\ reply.op = "sweep"
    /\ reply.at = DaySeconds + 1
    /\ Len(reply.value) = 1
    /\ developments[reply.value[1]].resource_cost = 200
    /\ developments[reply.value[1]].start_time = 0
    /\ developments[reply.value[1]].status = "completed"
    /\ countries[developments[reply.value[1]].country_id].gdp = 1050000000
    /\ countries[developments[reply.value[1]].country_id].resources = 816

\* C15: a development is created IN_PROGRESS with end_time > start_time, the
\* only change of a status is from IN_PROGRESS to COMPLETED, and no call
\* removes a development or changes another of its fields.
C15_StatusMovesForward ==
    [][/\ Len(developments') >= Len(developments)
       /\ \A i \in 1..Len(developments) :
              \/ developments'[i] = developments[i]
              \/ /\ developments[i].status = "in_progress"
                 /\ developments'[i] = [developments[i] EXCEPT !.status = "completed"]
       /\ \A i \in (Len(developments) + 1)..Len(developments') :
              /\ developments'[i].status = "in_progress"
              /\ developments'[i].end_time > developments'[i].start_time]_vars

\* a completed development, and after its completion a call that changed
\* the store
C15_CallAfterCompletion ==
    /\ \E i \in 1..Len(developments) : developments[i].status = "completed"
    /\ reply.op \in {"build_army", "update_resources", "attack"}
    /\ reply.error = "none"

\* C16: for every development and every time, the progress reported is in
\* 0..100 and the time left is >= 0; a COMPLETED development reports 100 and
\* 0, a CANCELLED one 0 and 0; while a development is IN_PROGRESS its
\* progress does not decrease as the clock advances.
C16_ProgressBoundedAndMonotone ==
    /\ [](\A i \in 1..Len(developments) :
              /\ \A p \in {ProgressOf(developments[i], now)} :
                     /\ p.progress \in 0..100
                     /\ p.time_left >= 0
                     /\ developments[i].status = "completed" =>
                            p = [progress |-> 100, time_left |-> 0]
              /\ ProgressOf([developments[i] EXCEPT !.status = "cancelled"], now)
                     = [progress |-> 0, time_left |-> 0])
    /\ []((reply.op = "get_development_progress" /\ reply.error = "none") =>
              /\ reply.progress \in 0..100
              /\ reply.time_left_seconds >= 0
              /\ reply.status = "completed" =>
                     (reply.progress = 100 /\ reply.time_left_seconds = 0))
    /\ [][\A i \in 1..Len(developments) :
              ( /\ now' # now
                /\ developments[i].status = "in_progress"
                /\ developments'[i].status = "in_progress" ) =>
                  ProgressOf(developments'[i], now').progress
                      >= ProgressOf(developments[i], now).progress]_vars

\* the progress of a development asked for during its second day, after it
\* was asked for during its first
C16_ProgressReportedMidway ==
    /\ reply.op = "get_development_progress"
    /\ reply.error = "none"
    /\ reply.status = "in_progress"
    /\ reply.progress > 50
    /\ reply.progress < 100
    /\ reply.time_left_seconds > 0

\* C17: every step that changes the resources of a country appends a
\* TransactionLog row for that country whose amount is the change, and no
\* step changes or removes a TransactionLog row.
C17_EveryChangeLogged ==
    [][/\ Len(transaction_logs') >= Len(transaction_logs)
       /\ \A i \in 1..Len(transaction_logs) :
              transaction_logs'[i] = transaction_logs[i]
       /\ \A c \in 1..Len(countries) :
              countries'[c].resources # countries[c].resources =>
                  \E k \in (Len(transaction_logs) + 1)..Len(transaction_logs') :
                      /\ transaction_logs'[k].country_id = c
                      /\ transaction_logs'[k].amount =
                             countries'[c].resources - countries[c].resources]_vars

\* the status of a country that was created and then bought 100 infantry,
\* the only purchase of 100 units the initial resources pay for
C18_StatusAfterPurchase ==
    /\ reply.op = "get_country_status"
    /\ reply.error = "none"
    /\ \E k \in 1..Len(transaction_logs) :
           /\ transaction_logs[k].country_id = reply.value
           /\ transaction_logs[k].transaction_type = "build_army"
           /\ transaction_logs[k].amount = 0 - unit_costs["infantry"] * 100

\* C18, as the specification states it: after create_country and
\* build_army of 100 infantry, the status shows 100 infantry and resources
\* 1000 below the initial resources.
C18_RoundTripShowsHundred ==
    C18_StatusAfterPurchase =>
        /\ reply.units["infantry"] = 100
        /\ reply.resources = INITIAL_RESOURCES - 1000

\* C18, amended: the status shows 200 infantry, the 100 create_country gave
\* and the 100 bought, and resources 1000 below the initial resources.
C18_RoundTripAddsHundred ==
    C18_StatusAfterPurchase =>
        /\ reply.units["infantry"] = initial_units[1][2] + 100
        /\ reply.resources = INITIAL_RESOURCES - 1000

\* the status of such a country was asked for: 200 infantry, no resources
C18_StatusShowsPurchase ==
    /\ C18_StatusAfterPurchase
    /\ reply.units["infantry"] = 200
    /\ reply.resources = 0

\* C19: build_army, start_development and update_resources with a negative
\* amount, called with a cost above the resources of the country, raise
\* ResourceError and leave the store as it was; when they succeed, the same
\* step takes the cost from the resources, adds the units or the development
\* and appends the TransactionLog row.
C19_SpendingGuarded ==
    [][/\ \A c \in CountryIds, t \in UnitTypeStrings, q \in BuildQuantities :
              BuildArmy(c, t, q) =>
                  /\ ( /\ t \in UnitType /\ q > 0 /\ CountryExists(c)
                       /\ countries[c].resources < unit_costs[t] * q ) =>
                         (reply'.error = "ResourceError" /\ UNCHANGED store)
                  /\ reply'.error = "none" =>
                         /\ countries'[c].resources = countries[c].resources - unit_costs[t] * q
                         /\ StrengthOf(SelectRows(military_units', c)) =
                                StrengthOf(SelectRows(military_units, c)) + unit_strength[t] * q
                         /\ Len(transaction_logs') = Len(transaction_logs) + 1
                         /\ transaction_logs'[Len(transaction_logs')].amount = 0 - unit_costs[t] * q
       /\ \A c \in CountryIds, g \in CategoryStrings, o \in OptionNames :
              StartDevelopment(c, g, o) =>
                  /\ ( /\ g \in DevelopmentCategory /\ CountryExists(c)
                       /\ FindOption(development_options[g], o, 1) # 0
                       /\ countries[c].resources < development_options[g][FindOption(development_options[g], o, 1)].cost ) =>
                         (reply'.error = "ResourceError" /\ UNCHANGED store)
                  /\ reply'.error = "none" =>
                         /\ Len(developments') = Len(developments) + 1
                         /\ developments'[Len(developments')].country_id = c
                         /\ developments'[Len(developments')].name = o
                         /\ countries'[c].resources =
                                countries[c].resources - developments'[Len(developments')].resource_cost
                         /\ Len(transaction_logs') = Len(transaction_logs) + 1
                         /\ transaction_logs'[Len(transaction_logs')].amount =
                                0 - developments'[Len(developments')].resource_cost
       /\ \A c \in CountryIds, a \in ResourceAmounts :
              UpdateResources(c, a) =>
                  /\ (CountryExists(c) /\ a < 0 /\ countries[c].resources + a < 0) =>
                         (reply'.error = "ResourceError" /\ UNCHANGED store)
                  /\ reply'.error = "none" =>
                         /\ countries'[c].resources = countries[c].resources + a
                         /\ Len(transaction_logs') = Len(transaction_logs) + 1
                         /\ transaction_logs'[Len(transaction_logs')].amount = a
       /\ reply'.error = "ResourceError" => UNCHANGED store]_vars

\* a development refused for lack of resources, after a call that spent them
C19_DevelopmentRefused ==
    /\ reply = Raise("start_development", "ResourceError")
    /\ Len(transaction_logs) > 0
    /\ \E c \in 1..Len(countries) : countries[c].resources < 200

\* C20: whatever the interleaving of create_country calls, no user owns two
\* countries and no two countries have the same name.
C20_OneCountryPerUser ==
    \A i \in 1..Len(countries) : \A j \in 1..Len(countries) :
        i # j => /\ countries[i].user_id # countries[j].user_id
                 /\ countries[i].name # countries[j].name

\* C21: in every committed state every Alliance row has its founder among
\* its members.
C21_FounderIsMember ==
    \A a \in alliances : a.founder_id \in Members(a.id)

\* C22: leave_alliance called by the founder of the alliance raises
\* PermissionError and leaves the members as they were; called by another
\* member it removes that country from the members and no other row; called
\* by a country that is not a member it raises ValidationError.
C22_LeaveAlliance ==
    [][\A c \in MemberIds : \A a \in AllianceIds :
           LeaveAlliance(c, a) =>
               IF \E x \in AllianceById(a) : x.founder_id = c
               THEN /\ reply'.error = "PermissionError"
                    /\ country_alliance' = country_alliance
               ELSE IF c \in Members(a)
               THEN /\ reply'.error = "none"
                    /\ country_alliance' = country_alliance \ {<<c, a>>}
                    /\ <<c, a>> \in country_alliance
               ELSE /\ reply'.error = "ValidationError"
                    /\ country_alliance' = country_alliance]_vars

\* a member has left an alliance that keeps its founder and another member
C22_MemberLeft ==
    /\ reply.op = "leave_alliance"
    /\ reply.error = "none"
    /\ \E x \in AllianceById(reply.value) :
           /\ x.founder_id \in Members(x.id)
           /\ Cardinality(Members(x.id)) = 2

\* C23: disband_alliance by a country that is not the founder raises
\* PermissionError and changes neither table; by the founder it deletes the
\* Alliance row and every row of country_alliance of that alliance, however
\* many members it has, and no other row.
C23_DisbandAlliance ==
    [][\A c \in MemberIds : \A a \in AllianceIds :
           (DisbandAlliance(c, a) /\ AllianceById(a) # {}) =>
               IF \E x \in AllianceById(a) : x.founder_id # c
               THEN /\ reply'.error = "PermissionError"
                    /\ alliances' = alliances
                    /\ country_alliance' = country_alliance
               ELSE /\ reply'.error = "none"
                    /\ alliances' = alliances \ AllianceById(a)
                    /\ country_alliance' = {r \in country_alliance : r[2] # a}]_vars

\* the founder has disbanded an alliance of three members
C23_DisbandedWithMembers ==
    /\ reply.op = "disband_alliance"
    /\ reply.error = "none"
    /\ reply.members = 3
    /\ AllianceById(reply.value) = {}
    /\ \A r \in country_alliance : r[2] # reply.value

\* the rank names of get_country_rank and the columns they rank
C24_Metrics ==
    { <<"military_rank", "military_power">>, <<"economy_rank", "gdp">>,
      <<"population_rank", "population">> }

\* C24: for every country that exists and each of military_power, gdp and
\* population, get_country_rank returns 1 + the number of countries with a
\* greater value: the rank is in 1..total_countries, countries with equal
\* values have the same rank, and a country with the greatest value has
\* rank 1.
C24_RankCountsGreater ==
    [][\A c \in CountryIds :
           (reply'.op = "get_country_rank" /\ reply'.value = c /\ CountryExists(c) /\ GetCountryRank(c)) =>
               /\ reply'.total_countries = Len(countries)
               /\ \A m \in C24_Metrics :
                      /\ reply'[m[1]] = 1 + Cardinality({i \in 1..Len(countries) :
                                                countries[i][m[2]] > countries[c][m[2]]})
                      /\ reply'[m[1]] \in 1..reply'.total_countries
                      /\ \A d \in 1..Len(countries) :
                             countries[d][m[2]] = countries[c][m[2]] =>
                                 CountGreater(countries, m[2], countries[d][m[2]]) + 1 = reply'[m[1]]
                      /\ (\A i \in 1..Len(countries) : countries[i][m[2]] <= countries[c][m[2]]) =>
                             reply'[m[1]] = 1]_vars

\* a country ranked second by gdp and first, with the other, by
\* military_power and population
C24_RankedSecond ==
    /\ reply.op = "get_country_rank"
    /\ CountryExists(reply.value)
    /\ reply.economy_rank = 2
    /\ reply.military_rank = 1
    /\ reply.population_rank = 1
    /\ reply.total_countries = 2
    /\ \E i \in 1..Len(countries) : countries[i].gdp > countries[reply.value].gdp

\* C25: in an attack that succeeds, the strength of each side (the sum of
\* quantity * unit strength * technology_level over its units) falls by no
\* more than the casualties the Battle row records for that side.
C25_StrengthLostWithinCasualties ==
    [][(reply'.op = "attack" /\ reply'.error = "none" /\ reply' # reply) =>
           LET b == battles'[Len(battles')]
           IN  /\ StrengthOf(SelectRows(military_units, b.attacker_id))
                      - StrengthOf(SelectRows(military_units', b.attacker_id))
                          <= b.casualties_attacker
               /\ StrengthOf(SelectRows(military_units, b.defender_id))
                      - StrengthOf(SelectRows(military_units', b.defender_id))
                          <= b.casualties_defender]_vars

\* the CommandLog rows of a user and a command stamped from lo to hi
C26_LogsWithin(user_id, command, lo, hi) ==
    {i \in 1..Len(command_logs) :
        /\ command_logs[i].user_id = user_id
        /\ command_logs[i].command = command
        /\ command_logs[i].timestamp >= lo
        /\ command_logs[i].timestamp <= hi}

\* C26: for every registered user and every command, no window of the
\* period of the command holds more than max_calls logged invocations (5
\* attacks in an hour, 1 create_country in a day); an invocation that finds
\* max_calls in the window behind it raises RateLimitError and logs
\* nothing, and every other invocation is allowed and logged, so that
\* invocations are allowed again when earlier ones have left the window.
C26_RateLimited ==
    /\ [](\A i \in 1..Len(command_logs) :
              Cardinality(C26_LogsWithin(command_logs[i].user_id, command_logs[i].command,
                                         command_logs[i].timestamp,
                                         command_logs[i].timestamp + LimitOf(command_logs[i].command)[2]))
                  <= LimitOf(command_logs[i].command)[1])
    /\ [][\A u \in RegisteredUsers : \A c \in RateCommands :
              CheckRateLimit(u, c) =>
                  IF Cardinality(C26_LogsWithin(u, c, now - LimitOf(c)[2], now)) >= LimitOf(c)[1]
                  THEN /\ reply'.error = "RateLimitError"
                       /\ command_logs' = command_logs
                  ELSE /\ reply'.error = "none"
                       /\ command_logs' = Append(command_logs,
                              [user_id |-> u, command |-> c, timestamp |-> now])]_vars
    /\ [](LimitOf("attack") = <<5, 3600>> /\ LimitOf("build_army") = <<10, 3600>>
              /\ LimitOf("create_country") = <<1, DaySeconds>>)

\* the sixth attack of a user, one hour after the first five, is denied,
\* and the five are all that is logged for the user
C26_SixthAttackDenied ==
    /\ reply.op = "check_rate_limit"
    /\ reply.error = "RateLimitError"
    /\ reply.at = now
    /\ now = 3600
    /\ Cardinality(C26_LogsWithin(1, "attack", 0, 0)) = 5
    /\ Cardinality(C26_LogsWithin(1, "attack", 0, now)) = 5
    /\ Len(command_logs) = 5

\* C27: the total_strength get_country_status reports for a country is the
\* strength calculate_military_strength gives for it, the sum of quantity *
\* unit strength * technology_level over its units.
C27_StatusStrengthIsAttackStrength ==
    (reply.op = "get_country_status" /\ reply.error = "none") =>
        reply.total_strength = StrengthOf(SelectRows(military_units, reply.value))

\* C28: whenever get_development_progress returns progress 100 and
\* time_left_seconds 0, the status it returns is completed: no development
\* is reported in_progress once its end_time has passed.
C28_FullProgressIsCompleted ==
    ( /\ reply.op = "get_development_progress"
      /\ reply.error = "none"
      /\ reply.progress = 100
      /\ reply.time_left_seconds = 0 ) =>
        reply.status = "completed"


\* C29: with the sweep called again and again, every development that is
\* in progress and whose end_time has passed is eventually completed, also
\* when its bonuses take military_power or gdp past the stored bounds.  (The
\* first ResearchRounds developments are completed from the start.)
C29_DueDevelopmentCompletes ==
    \A i \in (ResearchRounds + 1)..(ResearchRounds + MaxStarted) :
        (/\ i <= Len(developments)
         /\ developments[i].status = "in_progress"
         /\ developments[i].end_time <= now)
        ~> (i <= Len(developments) /\ developments[i].status = "completed")

\* what does hold: a due development is completed, or a sweep is refused by
\* the store
DueDevelopmentCompletesOrIsRefused ==
    \A i \in (ResearchRounds + 1)..(ResearchRounds + MaxStarted) :
        (/\ i <= Len(developments)
         /\ developments[i].status = "in_progress"
         /\ developments[i].end_time <= now)
        ~> \/ (i <= Len(developments) /\ developments[i].status = "completed")
           \/ (reply.op = "sweep" /\ reply.error = "IntegrityError")

\* C30: every country row of the store is within the stored ranges:
\* population in MIN_POPULATION..MAX_POPULATION, gdp in MIN_GDP..MAX_GDP,
\* military_power in MIN_MILITARY_POWER..MAX_MILITARY_POWER; completions of
\* developments never take military_power above 100.
C30_CountriesWithinRanges ==
    \A c \in 1..Len(countries) :
        /\ countries[c].population >= MIN_POPULATION
        /\ countries[c].population <= MAX_POPULATION
        /\ countries[c].gdp >= MIN_GDP
        /\ BCmp(BFromInt(countries[c].gdp), MAX_GDP) /= 1
        /\ countries[c].military_power >= MIN_MILITARY_POWER
        /\ countries[c].military_power <= MAX_MILITARY_POWER

\* a completion was committed at military_power 88, and the sweep after the
\* next due development was refused by the store
C30_CompletionRefused ==
    /\ reply.op = "sweep" /\ reply.error = "IntegrityError"
    /\ countries[1].military_power = 98
    /\ \E i \in 1..Len(developments) :
           developments[i].status = "in_progress" /\ developments[i].end_time <= now
====
